---- MODULE Spec2Model ----
(***************************************************************************)
(* A model of the Gemini Files subsystem of CLIProxyAPI:                   *)
(*   - GeminiFileStore (internal/filestore/gemini_file_store.go): content  *)
(*     files, metadata sidecars, byte counter, expiry and sweep;           *)
(*   - GeminiUpstreamFileAPIHandler (the upstream proxy): the table that   *)
(*     binds a resumable upload session to the credential that started it. *)
(*                                                                         *)
(* Time is one integer clock, now.  One unit of the clock is one hour of   *)
(* retention; two readings of time.Now() taken without a Tick in between   *)
(* are equal (a coarse or stepped wall clock).  File content is kept at    *)
(* block granularity: every element of a content sequence is one block of  *)
(* 1024*1024 bytes, so that bounded contents reach a quota given in MB.    *)
(***************************************************************************)
EXTENDS Integers, Sequences, FiniteSets, TLC

\* ---------------------------------------------------------------- bounds
\* Last clock reading explored.
MaxTime == 2
\* Longest content, in blocks.
MaxLen == 1
\* Largest configured retention (expirationHours), in hours.
MaxExpirationHours == 1
\* Largest configured quota (maxTotalSizeMB); 0 is "unlimited".
MaxQuotaMB == 1
\* Number of I/O failures injected in one behaviour.
MaxFaults == 1
\* Largest value of the byte counter explored, in blocks.
MaxTotalBlocks == 2
\* Last clock reading of the upstream proxy.
MaxProxyTime == 3
\* Number of upload ids the upstream hands out.
MaxUploads == 2
\* Number of follow-up requests between lookup and executor call at one time.
MaxInflight == 2
\* Number of calls through the credential executor.
MaxCalls == 3
\* Number of parts in the content of a request.
MaxParts == 2

\* ------------------------------------------------------------- constants
BytesPerMB == 1024 * 1024

\* Lifetime of an upload session, in hours.
SessionTTLHours == 2

\* Block values a content stream can carry.
BlockValues == {"x", "y"}

\* Caller API keys; "" is the anonymous caller.
Keys == {"", "key-a", "key-b"}

ErrNil == "nil"
ErrFileNotFound == "file not found"
ErrFileTooLarge == "file too large"

\* All contents of at most n blocks.
RECURSIVE SeqsUpTo(_)
SeqsUpTo(n) ==
    IF n = 0 THEN {<< >>}
    ELSE LET shorter == SeqsUpTo(n - 1)
         IN  shorter \cup {Append(s, b) : s \in {t \in shorter : Len(t) = n - 1}, b \in BlockValues}

Contents == SeqsUpTo(MaxLen)

\* Size in bytes of a content of blocks.
SizeOf(content) == Len(content) * BytesPerMB

\* ------------------------------------------------------------ identifiers
HexDigits == <<"0", "1", "2", "3", "4", "5", "6", "7", "8", "9", "a", "b", "c", "d", "e", "f">>

DigitChars == {"0", "1", "2", "3", "4", "5", "6", "7", "8", "9"}
LowerHexChars == {"a", "b", "c", "d", "e", "f"}
UpperHexChars == {"A", "B", "C", "D", "E", "F"}

\* hex.EncodeToString(sha256(timestamp)[:16]): 32 lower-case hex characters that
\* depend on the timestamp alone; distinct timestamps give distinct ids.
GenerateFileID(timestamp) ==
    [i \in 1..32 |-> HexDigits[((timestamp * 7 + i * 3) % 16) + 1]]

FileIDs == {GenerateFileID(t) : t \in 0..MaxTime}

isValidFileID_NoLength(fileID) ==
    \A i \in 1..Len(fileID) : fileID[i] \in DigitChars \cup LowerHexChars \cup UpperHexChars

isValidFileID(fileID) ==
    /\ Len(fileID) = 32
    /\ \A i \in 1..Len(fileID) :
          \/ fileID[i] \in DigitChars
          \/ fileID[i] \in LowerHexChars
          \/ fileID[i] \in UpperHexChars

\* Ids a caller can send that are not 32 hexadecimal characters.
InvalidIDs ==
    { <<".", ".">>,
      SubSeq(GenerateFileID(0), 1, 31),
      [GenerateFileID(0) EXCEPT ![32] = "g"] }

RequestIDs == FileIDs \cup InvalidIDs

\* hashAPIKey: "" for the anonymous key, else the first 8 bytes of sha256 in hex.
hashAPIKey(apiKey) ==
    CASE apiKey = "" -> ""
      [] apiKey = "key-a" -> "5d1f0c6e3a9b4472"
      [] apiKey = "key-b" -> "c81e728d9d4c2f63"
      [] OTHER -> "ffffffffffffffff"

\* sha256 of a content, as a number of fixed width: distinct contents of up to
\* 17 blocks give distinct digests.
DigestWidth == 2^29

RECURSIVE DigestUpTo(_, _)
\* The digest of the first n blocks of a content.
DigestUpTo(content, n) ==
    IF n = 0 THEN 1
    ELSE (3 * DigestUpTo(content, n - 1) + (IF content[n] = "x" THEN 1 ELSE 2)) % DigestWidth

Digest(content) == DigestUpTo(content, Len(content))

NilMetadata ==
    [FileID |-> << >>, MimeType |-> "", SizeBytes |-> 0, SHA256Hash |-> 0, ExpiresAt |-> 0,
     APIKey |-> ""]

\* ------------------------------------------------------------------ state
\* Time is counted in readings of the clock; one hour is one reading apart, so
\* two calls that read the same value of time.Now() happen at the same "now".
VARIABLES
    filesDir,          \* <base>/files: file id -> content, for the content files present
    metadataDir,       \* <base>/metadata: file id -> sidecar, for the sidecars present
    currentTotalSize,  \* GeminiFileStore.currentTotalSize, in bytes
    expirationHours,   \* GeminiFileStore.expirationHours (configuration)
    maxTotalSizeMB,    \* GeminiFileStore.maxTotalSizeMB (configuration, 0 = unlimited)
    now,               \* the clock read by time.Now()
    faults,            \* number of I/O failures injected so far
    lastOp,            \* the FileStore call that is returning: its arguments and its results
    saved              \* history: the followed SaveFile call, until a delete or a sweep goes for its id

storeVars == <<filesDir, metadataDir, currentTotalSize, expirationHours, maxTotalSizeMB,
               faults, lastOp, saved>>

\* The directory state a FileStore operation works on.
Store == [filesDir |-> filesDir, metadataDir |-> metadataDir, currentTotalSize |-> currentTotalSize]

\* A sidecar holds a parsable FileMetadata, or bytes json.Unmarshal rejects.
Sidecar(metadata) == [parsable |-> TRUE, md |-> metadata]
CorruptSidecar == [parsable |-> FALSE, md |-> NilMetadata]

\* os.Remove / map delete on a directory listing.
RemoveEntry(dir, name) == [n \in DOMAIN dir \ {name} |-> dir[n]]
\* os.Rename / os.WriteFile: create or replace an entry.
PutEntry(dir, name, value) == [n \in DOMAIN dir \cup {name} |-> IF n = name THEN value ELSE dir[n]]

\* Sum of the sizes of the content files on disk.
RECURSIVE SumSizes(_, _)
SumSizes(dir, names) ==
    IF names = {} THEN 0
    ELSE LET n == CHOOSE x \in names : TRUE
         IN  SizeOf(dir[n]) + SumSizes(dir, names \ {n})

DiskBytes == SumSizes(filesDir, DOMAIN filesDir)

\* ------------------------------------------------------- pure operations
isExpired(metadata, t) == t > metadata.ExpiresAt

isOwnedByAPIKey_AnonymousOpen(metadata, apiKey) ==
    IF metadata.APIKey = "" THEN TRUE ELSE metadata.APIKey = hashAPIKey(apiKey)

isOwnedByAPIKey(metadata, apiKey) ==
    IF metadata.APIKey = "" THEN apiKey = "" ELSE metadata.APIKey = hashAPIKey(apiKey)

\* loadMetadata: the id is validated before any path is built from it.
loadMetadata(mdDir, fileID) ==
    IF ~isValidFileID(fileID)
    THEN [err |-> ErrFileNotFound, md |-> NilMetadata, touched |-> {}]
    ELSE IF fileID \notin DOMAIN mdDir
    THEN [err |-> ErrFileNotFound, md |-> NilMetadata, touched |-> {fileID}]
    ELSE IF ~mdDir[fileID].parsable
    THEN [err |-> "failed to unmarshal metadata", md |-> NilMetadata, touched |-> {fileID}]
    ELSE [err |-> ErrNil, md |-> mdDir[fileID].md, touched |-> {fileID}]

\* GetFile returns what loadMetadata returns; it does not look at ExpiresAt.
GetFile(mdDir, fileID) == loadMetadata(mdDir, fileID)

GetFileForAPIKey(mdDir, fileID, apiKey, t) ==
    LET r == GetFile(mdDir, fileID)
    IN  IF r.err # ErrNil THEN r
        ELSE IF ~isOwnedByAPIKey(r.md, apiKey) \/ isExpired(r.md, t)
        THEN [err |-> ErrFileNotFound, md |-> NilMetadata, touched |-> r.touched]
        ELSE r

\* GetFileContent: result plus the content the opened file reads.
GetFileContent(fDir, mdDir, fileID, t) ==
    IF ~isValidFileID(fileID)
    THEN [err |-> ErrFileNotFound, md |-> NilMetadata, data |-> << >>, touched |-> {}]
    ELSE LET r == loadMetadata(mdDir, fileID)
         IN  IF r.err # ErrNil
             THEN [err |-> r.err, md |-> NilMetadata, data |-> << >>, touched |-> r.touched]
             ELSE IF t > r.md.ExpiresAt
             THEN [err |-> ErrFileNotFound, md |-> NilMetadata, data |-> << >>, touched |-> r.touched]
             ELSE IF fileID \notin DOMAIN fDir
             THEN [err |-> "failed to open file", md |-> NilMetadata, data |-> << >>, touched |-> r.touched]
             ELSE [err |-> ErrNil, md |-> r.md, data |-> fDir[fileID], touched |-> r.touched]

GetFileContentForAPIKey(fDir, mdDir, fileID, apiKey, t) ==
    LET m == GetFileForAPIKey(mdDir, fileID, apiKey, t)
    IN  IF m.err # ErrNil
        THEN [err |-> m.err, md |-> NilMetadata, data |-> << >>, touched |-> m.touched]
        ELSE LET c == GetFileContent(fDir, mdDir, fileID, t)
             IN  IF c.err # ErrNil
                 THEN [err |-> c.err, md |-> NilMetadata, data |-> << >>, touched |-> c.touched]
                 ELSE [err |-> ErrNil, md |-> m.md, data |-> c.data, touched |-> c.touched]

ensureFileSizeAllowed(metadata, maxBytes) ==
    IF maxBytes <= 0 THEN ErrNil
    ELSE IF metadata.SizeBytes <= maxBytes THEN ErrNil
    ELSE ErrFileTooLarge

\* readAllWithinLimit: reads at most maxBytes+1 bytes; more than maxBytes is an error.
readAllWithinLimit_Truncate(content, maxBytes) ==
    IF maxBytes <= 0 \/ SizeOf(content) <= maxBytes THEN [err |-> ErrNil, data |-> content]
    ELSE [err |-> ErrNil, data |-> SubSeq(content, 1, maxBytes \div BytesPerMB)]

readAllWithinLimit(content, maxBytes) ==
    IF maxBytes <= 0 THEN [err |-> ErrNil, data |-> content]
    ELSE LET nRead == IF SizeOf(content) <= maxBytes + 1 THEN SizeOf(content) ELSE maxBytes + 1
         IN  IF nRead > maxBytes THEN [err |-> ErrFileTooLarge, data |-> << >>]
             ELSE [err |-> ErrNil, data |-> content]

ReadFileBytesForAPIKey(fDir, mdDir, fileID, apiKey, maxBytes, t) ==
    LET c == GetFileContentForAPIKey(fDir, mdDir, fileID, apiKey, t)
    IN  IF c.err # ErrNil THEN c
        ELSE IF ensureFileSizeAllowed(c.md, maxBytes) # ErrNil
        THEN [err |-> ErrFileTooLarge, md |-> NilMetadata, data |-> << >>, touched |-> c.touched]
        ELSE LET d == readAllWithinLimit(c.data, maxBytes)
             IN  IF d.err # ErrNil
                 THEN [err |-> d.err, md |-> NilMetadata, data |-> << >>, touched |-> c.touched]
                 ELSE [err |-> ErrNil, md |-> c.md, data |-> d.data, touched |-> c.touched]

\* ListFiles: every sidecar that loads and is not expired.
ListFiles(mdDir, t) ==
    {mdDir[id].md : id \in {i \in DOMAIN mdDir :
                               /\ loadMetadata(mdDir, i).err = ErrNil
                               /\ ~isExpired(mdDir[i].md, t)}}

filterByAPIKey_Anonymous(files, apiKey) ==
    {m \in files : m.APIKey = hashAPIKey(apiKey) \/ m.APIKey = ""}

filterByAPIKey(files, apiKey) ==
    {m \in files : m.APIKey = hashAPIKey(apiKey)}

ListFilesForAPIKey(mdDir, apiKey, t) == filterByAPIKey(ListFiles(mdDir, t), apiKey)

\* ------------------------------------------------------ write operations
\* I/O failures a write operation can meet.
SaveFaults == {"none", "create", "copy", "rename", "metaOpen", "metaWrite"}
DeleteFaults == {"none", "removeContent", "removeMetadata"}

deleteFileUnsafe_MustExist(st, fileID, fault) ==
    IF ~isValidFileID(fileID) \/ fileID \notin DOMAIN st.filesDir
    THEN [st |-> st, err |-> ErrFileNotFound, touched |-> {}]
    ELSE [st |-> [filesDir |-> RemoveEntry(st.filesDir, fileID),
                  metadataDir |-> RemoveEntry(st.metadataDir, fileID),
                  currentTotalSize |-> st.currentTotalSize - SizeOf(st.filesDir[fileID])],
          err |-> ErrNil, touched |-> {fileID}]

\* deleteFileUnsafe on store st: the counter is decremented when the content
\* file can be stat'ed, then the content file and the sidecar are removed; a
\* removal that fails (other than "does not exist") ends the call with an error.
deleteFileUnsafe(st, fileID, fault) ==
    IF ~isValidFileID(fileID)
    THEN [st |-> st, err |-> ErrFileNotFound, touched |-> {}]
    ELSE LET hasFile == fileID \in DOMAIN st.filesDir
             hasMeta == fileID \in DOMAIN st.metadataDir
             total1  == IF hasFile
                        THEN st.currentTotalSize - SizeOf(st.filesDir[fileID])
                        ELSE st.currentTotalSize
         IN  IF hasFile /\ fault = "removeContent"
             THEN [st |-> [st EXCEPT !.currentTotalSize = total1],
                   err |-> "failed to remove file", touched |-> {fileID}]
             ELSE IF hasMeta /\ fault = "removeMetadata"
             THEN [st |-> [st EXCEPT !.currentTotalSize = total1,
                                     !.filesDir = RemoveEntry(st.filesDir, fileID)],
                   err |-> "failed to remove metadata", touched |-> {fileID}]
             ELSE [st |-> [filesDir |-> RemoveEntry(st.filesDir, fileID),
                           metadataDir |-> RemoveEntry(st.metadataDir, fileID),
                           currentTotalSize |-> total1],
                   err |-> ErrNil, touched |-> {fileID}]

DeleteFile(st, fileID, fault) == deleteFileUnsafe(st, fileID, fault)

\* The quota check of SaveFile.
quotaExceeded(total, written, maxMB) ==
    maxMB > 0 /\ total + written > maxMB * BytesPerMB

\* The FileMetadata SaveFile builds.
newMetadata(fileID, content, mimeType, apiKey, t, expHours) ==
    [FileID |-> fileID, MimeType |-> mimeType, SizeBytes |-> SizeOf(content),
     SHA256Hash |-> Digest(content), ExpiresAt |-> t + expHours, APIKey |-> hashAPIKey(apiKey)]

SaveFile_QuotaAfterCommit(st, content, mimeType, apiKey, t, expHours, maxMB, fault) ==
    LET fileID  == GenerateFileID(t)
        written == SizeOf(content)
        md      == newMetadata(fileID, content, mimeType, apiKey, t, expHours)
        failed(msg) == [st |-> st, err |-> msg, md |-> NilMetadata]
        committed == [st EXCEPT !.filesDir = PutEntry(st.filesDir, fileID, content),
                                !.currentTotalSize = st.currentTotalSize + written]
    IN  IF fault = "create" THEN failed("failed to create temp file")
        ELSE IF fault = "copy" THEN failed("failed to write file content")
        ELSE IF fault = "rename" THEN failed("failed to finalize file")
        ELSE IF quotaExceeded(st.currentTotalSize, written, maxMB)
        THEN [st |-> committed, err |-> "storage quota exceeded", md |-> NilMetadata]
        ELSE [st |-> [committed EXCEPT !.metadataDir = PutEntry(st.metadataDir, fileID, Sidecar(md))],
              err |-> ErrNil, md |-> md]

\* SaveFile on store st at clock reading t.  The temporary file <id>.tmp exists
\* only inside the call (the deferred os.Remove takes it away on every path).
SaveFile(st, content, mimeType, apiKey, t, expHours, maxMB, fault) ==
    LET fileID  == GenerateFileID(t)
        written == SizeOf(content)
        md      == newMetadata(fileID, content, mimeType, apiKey, t, expHours)
        failed(msg) == [st |-> st, err |-> msg, md |-> NilMetadata]
        \* os.Rename(tempPath, finalPath); s.currentTotalSize += written
        committed == [st EXCEPT !.filesDir = PutEntry(st.filesDir, fileID, content),
                                !.currentTotalSize = st.currentTotalSize + written]
        \* os.Remove(finalPath); s.currentTotalSize -= written
        compensated(mdDir) == [filesDir |-> RemoveEntry(committed.filesDir, fileID),
                               metadataDir |-> mdDir,
                               currentTotalSize |-> committed.currentTotalSize - written]
    IN  IF fault = "create" THEN failed("failed to create temp file")
        ELSE IF fault = "copy" THEN failed("failed to write file content")
        ELSE IF quotaExceeded(st.currentTotalSize, written, maxMB)
        THEN failed("storage quota exceeded")
        ELSE IF fault = "rename" THEN failed("failed to finalize file")
        ELSE IF fault = "metaOpen"
        THEN [st |-> compensated(st.metadataDir), err |-> "failed to save metadata", md |-> NilMetadata]
        ELSE IF fault = "metaWrite"
        THEN [st |-> compensated(PutEntry(st.metadataDir, fileID, CorruptSidecar)),
              err |-> "failed to save metadata", md |-> NilMetadata]
        ELSE [st |-> [committed EXCEPT !.metadataDir = PutEntry(st.metadataDir, fileID, Sidecar(md))],
              err |-> ErrNil, md |-> md]

\* The sidecars one sweep deletes: those that load and whose ExpiresAt has passed.
sweepTargets(mdDir, t) ==
    {id \in DOMAIN mdDir : loadMetadata(mdDir, id).err = ErrNil /\ t > mdDir[id].md.ExpiresAt}

RECURSIVE deleteAll(_, _, _)
deleteAll(st, ids, fault) ==
    IF ids = {} THEN st
    ELSE LET id == CHOOSE x \in ids : TRUE
         IN  deleteAll(deleteFileUnsafe(st, id, fault).st, ids \ {id}, fault)

\* cleanupExpiredFiles: a failed deletion is logged and the sweep goes on.
cleanupExpiredFiles(st, t, fault) == deleteAll(st, sweepTargets(st.metadataDir, t), fault)

\* handleMultipartUpload: every SaveFile error is answered 500 INTERNAL.
uploadErrorStatus(err) == IF err = ErrNil THEN "OK" ELSE "INTERNAL"

\* --------------------------------------- local file references in requests
\* The byte ceiling of a file inlined into a request.
maxInlineFileBytes == 20 * 1024 * 1024

\* A URI is the sequence of its characters; "" is the empty sequence.
FilesPrefix == <<"f", "i", "l", "e", "s", "/">>

HasPrefix(str, prefix) ==
    Len(str) >= Len(prefix) /\ SubSeq(str, 1, Len(prefix)) = prefix

TrimPrefix(str, prefix) ==
    IF HasPrefix(str, prefix) THEN SubSeq(str, Len(prefix) + 1, Len(str)) ELSE str

\* FileMetadata.URI: "files/" followed by the file id.
LocalURI(fileID) == FilesPrefix \o fileID

\* base64.StdEncoding: what a block of bytes is written as, and back.
EncodeToString(data) == [i \in 1..Len(data) |-> IF data[i] = "x" THEN "eA==" ELSE "eQ=="]
DecodeString(text) == [i \in 1..Len(text) |-> IF text[i] = "eA==" THEN "x" ELSE "y"]

\* A request payload is a JSON object; an object is a function from the names
\* of its members.  The members of a part are text, file_data {file_uri,
\* mime_type}, fileData {fileUri, mimeType} and inline_data {mime_type, data}.
\* Array positions count from 1.
NoFileData == [file_uri |-> << >>, mime_type |-> ""]
NoFileDataCamel == [fileUri |-> << >>, mimeType |-> ""]

\* The payload handed back with an error.
NilPayload == [nil |-> TRUE]

filePartRef(contentIndex, partIndex, fileURI, mimeType) ==
    [contentIndex |-> contentIndex, partIndex |-> partIndex, fileURI |-> fileURI,
     mimeType |-> mimeType]

\* parseLocalFilePart: the snake_case member is read first, the camelCase one
\* when it gave no URI; the part is a reference when the URI starts with "files/".
parseLocalFilePart(contentIndex, partIndex, part) ==
    LET snake    == IF "file_data" \in DOMAIN part THEN part["file_data"] ELSE NoFileData
        camel    == IF "fileData" \in DOMAIN part THEN part["fileData"] ELSE NoFileDataCamel
        fileURI  == IF snake.file_uri # << >> THEN snake.file_uri ELSE camel.fileUri
        mimeType == IF snake.file_uri # << >> THEN snake.mime_type ELSE camel.mimeType
    IN  IF ~HasPrefix(fileURI, FilesPrefix)
        THEN [ok |-> FALSE, ref |-> filePartRef(0, 0, << >>, "")]
        ELSE [ok |-> TRUE, ref |-> filePartRef(contentIndex, partIndex, fileURI, mimeType)]

appendRefsFromContent(out, contentIndex, content) ==
    IF "parts" \notin DOMAIN content THEN out
    ELSE LET parts  == content["parts"]
             parsed == [pi \in 1..Len(parts) |-> parseLocalFilePart(contentIndex, pi, parts[pi])]
             isRef(r) == r.ok
             found  == SelectSeq(parsed, isRef)
         IN  out \o [i \in 1..Len(found) |-> found[i].ref]

RECURSIVE findRefsInContents(_, _)
\* The references of contents[from..], in order.
findRefsInContents(contents, from) ==
    IF from > Len(contents) THEN << >>
    ELSE appendRefsFromContent(<< >>, from, contents[from]) \o findRefsInContents(contents, from + 1)

findLocalFilePartRefs(payload) ==
    IF "contents" \notin DOMAIN payload THEN << >>
    ELSE findRefsInContents(payload["contents"], 1)

resolveMimeType_StoredFirst(ref, metadata) ==
    IF metadata.MimeType # "" THEN metadata.MimeType ELSE ref.mimeType

resolveMimeType(ref, metadata) ==
    IF ref.mimeType # "" THEN ref.mimeType ELSE metadata.MimeType

normalizeReadError_Wrap(err) == "read local file: error"

normalizeReadError(err) ==
    IF err = ErrFileNotFound THEN ErrFileNotFound
    ELSE IF err = ErrFileTooLarge THEN ErrFileTooLarge
    ELSE "read local file: error"

\* loadInlineFile: the bounded, owner-checked read of the file the URI names.
loadInlineFile(fDir, mdDir, apiKey, ref, t) ==
    LET fileID == TrimPrefix(ref.fileURI, FilesPrefix)
        r      == ReadFileBytesForAPIKey(fDir, mdDir, fileID, apiKey, maxInlineFileBytes, t)
    IN  IF r.err # ErrNil
        THEN [err |-> normalizeReadError(r.err), data |-> << >>, mimeType |-> ""]
        ELSE [err |-> ErrNil, data |-> r.data, mimeType |-> resolveMimeType(ref, r.md)]

\* applyInlineData: inline_data.mime_type and inline_data.data are set, and the
\* members file_data and fileData of the part are deleted.
applyInlineData(payload, ref, mimeType, data) ==
    LET part   == payload["contents"][ref.contentIndex]["parts"][ref.partIndex]
        kept   == DOMAIN part \ {"file_data", "fileData", "inline_data"}
        inline == [mime_type |-> mimeType, data |-> EncodeToString(data)]
        new    == ("inline_data" :> inline) @@ [m \in kept |-> part[m]]
    IN  [payload EXCEPT !["contents"][ref.contentIndex]["parts"][ref.partIndex] = new]

inlineLocalFilePart(payload, fDir, mdDir, apiKey, ref, t) ==
    LET r == loadInlineFile(fDir, mdDir, apiKey, ref, t)
    IN  IF r.err # ErrNil THEN [payload |-> NilPayload, err |-> r.err]
        ELSE [payload |-> applyInlineData(payload, ref, r.mimeType, r.data), err |-> ErrNil]

\* The references before the last one.
Front(refs) == SubSeq(refs, 1, Len(refs) - 1)

RECURSIVE applyLocalFilePartRefs_SkipFailed(_, _, _, _, _, _)
applyLocalFilePartRefs_SkipFailed(payload, fDir, mdDir, apiKey, refs, t) ==
    IF refs = << >> THEN [payload |-> payload, err |-> ErrNil]
    ELSE LET done == applyLocalFilePartRefs_SkipFailed(payload, fDir, mdDir, apiKey, Front(refs), t)
             r    == inlineLocalFilePart(done.payload, fDir, mdDir, apiKey, refs[Len(refs)], t)
         IN  IF r.err # ErrNil THEN done ELSE r

RECURSIVE applyLocalFilePartRefs(_, _, _, _, _, _)
\* applyLocalFilePartRefs: the references are inlined one after the other into
\* the payload built so far; the first failure ends the call with no payload,
\* so the last reference is inlined only when all before it were.
applyLocalFilePartRefs(payload, fDir, mdDir, apiKey, refs, t) ==
    IF refs = << >> THEN [payload |-> payload, err |-> ErrNil]
    ELSE LET done == applyLocalFilePartRefs(payload, fDir, mdDir, apiKey, Front(refs), t)
         IN  IF done.err # ErrNil THEN done
             ELSE inlineLocalFilePart(done.payload, fDir, mdDir, apiKey, refs[Len(refs)], t)

\* rewriteLocalFileParts on a handler that has a store.
rewriteLocalFileParts(payload, fDir, mdDir, apiKey, t) ==
    applyLocalFilePartRefs(payload, fDir, mdDir, apiKey, findLocalFilePartRefs(payload), t)

\* ------------------------------------------------- FileStore: its callers
VARIABLES
    mu,     \* GeminiFileStore.mu (sync.RWMutex): the goroutine holding Lock, those holding RLock
    calls,  \* goroutine -> the FileStore call it is in and the statement it is at
    routine \* the cleanup goroutine, its ticker and stop channel, and the Close call

lockVars == <<mu, calls, routine>>

\* ------------------------------------------------- upstream proxy: state
VARIABLES
    sessions,     \* GeminiUpstreamFileAPIHandler.sessions: upload id -> uploadSession
    inflight,     \* follow-up requests between their session lookup and their upstream call
    issued,       \* number of upload ids the upstream has handed out
    lastCall,     \* the last call made through the credential executor
    lastResp,     \* the last response a proxy handler wrote
    lastBody,     \* the body of that response
    authManager,  \* whether the handler's base has a credential pool (AuthManager)
    boundAt,      \* history: upload id -> credential whose start response carried it
    finalized     \* history: upload ids whose finalize succeeded upstream

proxyVars == <<sessions, inflight, issued, lastCall, lastResp, lastBody, authManager,
               boundAt, finalized>>

vars == <<filesDir, metadataDir, currentTotalSize, expirationHours, maxTotalSizeMB, now,
          faults, lastOp, saved,
          sessions, inflight, issued, lastCall, lastResp, lastBody, authManager,
          boundAt, finalized, mu, calls, routine>>

EmptyDir == [n \in {} |-> << >>]

\* ---------------------------------------------- upstream proxy: operations
\* Credentials registered in the credential pool (AuthManager).
Credentials == {"c1", "c2"}

\* upload_id values the upstream hands out, one per successful start.
UploadIDNames == <<"u1", "u2", "u3", "u4">>
UploadIDOf(n) == UploadIDNames[n]

\* upload_id values a follow-up request can carry.
RequestTokens == {"", "unknown"} \cup {UploadIDOf(n) : n \in 1..MaxUploads}

\* X-Goog-Upload-Command values of a follow-up request.
Commands == {"upload", "upload, finalize", "query"}

isFinalize_Any(cmd) == TRUE

\* strings.Contains(strings.ToLower(cmd), "finalize")
isFinalize(cmd) == cmd \in {"upload, finalize", "finalize"}

\* The text of an error or the body of a response: bytes that json.Valid
\* accepts, read as the JSON object they spell, or bytes it rejects.
Text(str) == [json |-> FALSE, text |-> str]
JSON(object) == [json |-> TRUE, value |-> object]

\* Errors the credential executor returns: a status code (0 = none), a
\* credential-pool category ("" = none) and the text of err.Error().
NoErr == [status |-> 0, code |-> "ok"]
ExecuteErrors ==
    { [status |-> 429, code |-> "",
       msg |-> JSON([error |-> [code |-> 429, message |-> "quota exceeded",
                                status |-> "RESOURCE_EXHAUSTED"]])],
      [status |-> 0, code |-> "auth_not_found", msg |-> Text("no auth available")] }

\* The error of pickAuth and execute on a handler without a credential pool.
ErrNoAuthManager ==
    [status |-> 503, code |-> "", msg |-> Text("gemini files: auth manager is not configured")]

\* Error bodies an upstream answers with: none, plain text, a JSON error whose
\* message is in the secondary member and whose status is an HTTP phrase, and a
\* JSON error in the symbolic vocabulary.
ErrorMessages ==
    { Text(""), Text("boom"),
      JSON([error |-> [message |-> "", status |-> "Bad Gateway"], message |-> "upstream failed"]),
      JSON([error |-> [code |-> 404, message |-> "file not found", status |-> "NOT_FOUND"]]) }

\* Errors writeProxyError is given.
ProxyErrors ==
    ExecuteErrors \cup {ErrNoAuthManager} \cup
    [status : {0, 400, 502},
     code : {"", "provider_not_found", "executor_not_found", "auth_unavailable"},
     msg : ErrorMessages]

\* A URL as url.Parse reads it: scheme, host, path and the decoded query
\* parameters (name -> value).
URL(scheme, host, path, query) ==
    [scheme |-> scheme, host |-> host, path |-> path, query |-> query]

NoQuery == [name \in {} |-> ""]
NoURL == URL("", "", "", NoQuery)

UploadPath == "/upload/v1beta/files"

\* The continuation URL the upstream returns with the upload id it hands out.
UpstreamUploadURL(uploadID) ==
    URL("https", "generativelanguage.googleapis.com", UploadPath,
        [name \in {"upload_id"} |-> uploadID])

\* extractUploadID: the upload_id query parameter, "" when there is none.
extractUploadID(uploadURL) ==
    IF "upload_id" \in DOMAIN uploadURL.query THEN uploadURL.query["upload_id"] ELSE ""

\* A request as the proxy's handlers see it: whether it came over TLS, its
\* X-Forwarded-Proto and X-Forwarded-Host headers ("" = absent), its Host and
\* the API key the caller authenticated with.
ProxyHost == "127.0.0.1:8317"
ProxyRequests ==
    [tls : BOOLEAN, forwardedProto : {"", "https"}, forwardedHost : {"", "edge.example"},
     host : {ProxyHost}, key : Keys]

\* A nil gin context (or one without a request).
NoRequest == [tls |-> FALSE, forwardedProto |-> "", forwardedHost |-> "", host |-> "", key |-> ""]

\* Requests that reach the proxy directly over plain http.
DirectRequests ==
    {c \in ProxyRequests : ~c.tls /\ c.forwardedProto = "" /\ c.forwardedHost = ""}

\* buildProxyUploadURL: scheme and host of the proxy as the caller reached it,
\* the upload path and the upload_id as the only query parameter.
buildProxyUploadURL(c, uploadID) ==
    IF c = NoRequest
    THEN URL("", "", UploadPath, [name \in {"upload_id"} |-> uploadID])
    ELSE LET scheme == IF c.forwardedProto # "" THEN c.forwardedProto
                       ELSE IF c.tls THEN "https" ELSE "http"
             host   == IF c.forwardedHost # "" THEN c.forwardedHost ELSE c.host
         IN  URL(scheme, host, UploadPath, [name \in {"upload_id"} |-> uploadID])

authIDFromMetadata(meta) == meta.SelectedAuthID

proxyErrorStatus_NoCategories(err) ==
    IF err.status > 0 THEN err.status ELSE 500

\* proxyErrorStatus: the status code the error carries, else the status of its
\* credential-pool category, else 500.
proxyErrorStatus(err) ==
    IF err.status > 0 THEN err.status
    ELSE IF err.code \in {"executor_not_found", "auth_not_found"} THEN 503
    ELSE IF err.code = "provider_not_found" THEN 400
    ELSE 500

googleStatusForHTTP(code) ==
    CASE code = 400 -> "INVALID_ARGUMENT"
      [] code = 401 -> "UNAUTHENTICATED"
      [] code = 403 -> "PERMISSION_DENIED"
      [] code = 404 -> "NOT_FOUND"
      [] code = 429 -> "RESOURCE_EXHAUSTED"
      [] code \in {408, 504} -> "DEADLINE_EXCEEDED"
      [] code \in {503, 502} -> "UNAVAILABLE"
      [] OTHER -> IF code >= 500 THEN "INTERNAL" ELSE "UNKNOWN"

bindSession(ss, uploadID, authID, t) ==
    IF uploadID = "" \/ authID = "" THEN ss
    ELSE PutEntry(ss, uploadID, [authID |-> authID, expiresAt |-> t + SessionTTLHours])

sessionAuthID_IgnoreExpiry(ss, uploadID, t) ==
    IF uploadID = "" THEN [sessions |-> ss, authID |-> "", ok |-> FALSE]
    ELSE IF uploadID \notin DOMAIN ss \/ ss[uploadID].authID = ""
    THEN [sessions |-> RemoveEntry(ss, uploadID), authID |-> "", ok |-> FALSE]
    ELSE [sessions |-> ss, authID |-> ss[uploadID].authID, ok |-> TRUE]

sessionAuthID_KeepExpired(ss, uploadID, t) ==
    IF uploadID = "" THEN [sessions |-> ss, authID |-> "", ok |-> FALSE]
    ELSE IF \/ uploadID \notin DOMAIN ss
            \/ ss[uploadID].authID = ""
            \/ t > ss[uploadID].expiresAt
    THEN [sessions |-> ss, authID |-> "", ok |-> FALSE]
    ELSE [sessions |-> ss, authID |-> ss[uploadID].authID, ok |-> TRUE]

\* sessionAuthID: the lookup deletes the entry it finds missing, blank or expired.
sessionAuthID(ss, uploadID, t) ==
    IF uploadID = "" THEN [sessions |-> ss, authID |-> "", ok |-> FALSE]
    ELSE IF \/ uploadID \notin DOMAIN ss
            \/ ss[uploadID].authID = ""
            \/ t > ss[uploadID].expiresAt
    THEN [sessions |-> RemoveEntry(ss, uploadID), authID |-> "", ok |-> FALSE]
    ELSE [sessions |-> ss, authID |-> ss[uploadID].authID, ok |-> TRUE]

dropSession_Keep(ss, uploadID) == ss

dropSession(ss, uploadID) ==
    IF uploadID = "" THEN ss ELSE RemoveEntry(ss, uploadID)

\* The options of a resumable start: fileOptionsFromRequest sets no metadata.
startOptions == [ForceAuthID |-> "", NoRetry |-> FALSE]

followUpOptions_NoForce(authID) == [ForceAuthID |-> "", NoRetry |-> TRUE]

\* The options of a follow-up: pinned to the session's credential, no retry.
followUpOptions(authID) == [ForceAuthID |-> authID, NoRetry |-> TRUE]

\* AuthManager.Execute: a forced credential id is the one the call runs with,
\* otherwise the pool's selector picks; without NoRetry a failed first attempt
\* is tried again on another credential.  pick is the selector's choice.
ManagerExecute(opts, pick, failedFirst) ==
    [authID   |-> IF opts.ForceAuthID # "" THEN opts.ForceAuthID ELSE pick,
     attempts |-> IF opts.NoRetry \/ ~failedFirst THEN 1 ELSE 2]

\* What a call through the credential executor leaves in lastCall.
Call(kind, uploadID, opts, pick, r) ==
    [n |-> lastCall.n + 1, kind |-> kind, uploadID |-> uploadID,
     ForceAuthID |-> opts.ForceAuthID, NoRetry |-> opts.NoRetry,
     pick |-> pick, authID |-> r.authID, attempts |-> r.attempts]

\* http.StatusText
StatusText(code) ==
    CASE code = 400 -> "Bad Request"
      [] code = 429 -> "Too Many Requests"
      [] code = 500 -> "Internal Server Error"
      [] code = 502 -> "Bad Gateway"
      [] code = 503 -> "Service Unavailable"
      [] OTHER -> ""

writeProxyError_Bare(err) ==
    [status |-> 500, contentType |-> "text/plain", body |-> [message |-> "error"]]

\* writeProxyError: status, content type and body of the response.  A text that
\* is valid JSON is sent as it is; any other is wrapped in the error envelope.
writeProxyError(err) ==
    LET first  == proxyErrorStatus(err)
        body   == IF err.msg = Text("") THEN Text(StatusText(first)) ELSE err.msg
        status == IF err.status > 0 THEN err.status ELSE first
    IN  IF body.json
        THEN [status |-> status, contentType |-> "application/json", body |-> body.value]
        ELSE [status |-> status, contentType |-> "application/json",
              body |-> [error |-> [code |-> status, message |-> body.text,
                                   status |-> googleStatusForHTTP(status)],
                        message |-> body.text]]

\* writeGeminiFileError: the body of the error a handler raises itself.
writeGeminiFileError(message, code) == [error |-> [message |-> message, status |-> code]]

\* The body of a response on which no handler error was written: the payload
\* of the upstream response.
UpstreamPayload == [payload |-> "upstream"]
NoBody == [payload |-> ""]

\* The status member of the error object of a body, "" when it has none.
errorStatusOf(body) ==
    IF "error" \in DOMAIN body /\ "status" \in DOMAIN body["error"] THEN body["error"].status
    ELSE ""

\* What a handler leaves in lastResp.
Response(kind, uploadID, status, code, uploadURL) ==
    [kind |-> kind, uploadID |-> uploadID, status |-> status, code |-> code,
     uploadURL |-> uploadURL]

\* writeProxyError: the status of the error and the status name in its body.
ProxyErrorResponse(kind, uploadID, err) ==
    Response(kind, uploadID, writeProxyError(err).status,
             errorStatusOf(writeProxyError(err).body), NoURL)

\* ------------------------------------------------------ FileStore actions
\* What a FileStore call leaves in lastOp when it returns.  data is the content
\* given to SaveFile, or the bytes a read returned; status is the HTTP error
\* status the upload handler answers with.
OpResult(op, fileID, apiKey, err, md, data, list, touched) ==
    [op |-> op, id |-> fileID, key |-> apiKey, err |-> err, md |-> md,
     data |-> data, list |-> list, touched |-> touched]

NoOp == OpResult("none", << >>, "", ErrNil, NilMetadata, << >>, {}, {})

\* Byte ceilings a bounded read is called with (0 = no ceiling).
ReadLimits == {0, BytesPerMB \div 2}

InitStore ==
    /\ filesDir = EmptyDir
    /\ metadataDir = EmptyDir
    /\ currentTotalSize = 0
    /\ expirationHours \in 1..MaxExpirationHours
    /\ maxTotalSizeMB \in 0..MaxQuotaMB
    /\ now = 0
    /\ faults = 0
    /\ lastOp = NoOp
    /\ saved = {}

InitHandler(manager) ==
    /\ authManager = manager
    /\ lastBody = NoBody
    /\ sessions = EmptyDir
    /\ inflight = {}
    /\ issued = 0
    /\ lastCall = [n |-> 0, kind |-> "none", uploadID |-> "", ForceAuthID |-> "",
                   NoRetry |-> FALSE, pick |-> "", authID |-> "", attempts |-> 0]
    /\ lastResp = Response("none", "", 0, "", NoURL)
    /\ boundAt = EmptyDir
    /\ finalized = {}

\* The proxy handler of a server that has a credential pool.
InitProxy == InitHandler(TRUE)

\* No goroutine is in a FileStore call and the mutex is free.
NoGoroutine == ""
FreeMutex == [writer |-> NoGoroutine, readers |-> {}]
NoCall == [op |-> "none", pc |-> "", id |-> << >>, content |-> << >>, stalled |-> FALSE,
           cancelled |-> FALSE, entries |-> {}, t |-> 0, err |-> ErrNil, key |-> ""]

\* The goroutines that call the store: two request handlers and the cleanup routine.
Handlers == {"g1", "g2"}
CleanupRoutine == "cleanup"
Goroutines == Handlers \cup {CleanupRoutine}

\* startCleanupRoutine: the ticker runs, its channel holds no tick, cleanupStop
\* is open, the goroutine waits in its select and Close has not been called.
\* ticker: whether Stop has been called; tick: a tick waits in cleanupTicker.C;
\* stop: cleanupStop is closed; pc: where the goroutine is; close: where Close is.
startCleanupRoutine ==
    [ticker |-> "running", tick |-> FALSE, stop |-> FALSE, pc |-> "select", close |-> "none"]

InitLocks ==
    /\ mu = FreeMutex
    /\ calls = [g \in Goroutines |-> NoCall]
    /\ routine = startCleanupRoutine

Init == InitStore /\ InitProxy /\ InitLocks

SetStore(st) ==
    /\ filesDir' = st.filesDir
    /\ metadataDir' = st.metadataDir
    /\ currentTotalSize' = st.currentTotalSize

\* An operation may meet an I/O failure while the budget lasts.
Inject(fault) ==
    /\ fault # "none" => faults < MaxFaults
    /\ faults' = IF fault = "none" THEN faults ELSE faults + 1

\* No FileStore call is returning: the store mutex is free.
Idle == lastOp = NoOp

Tick ==
    /\ Idle
    /\ now < MaxTime
    /\ now' = now + 1
    /\ UNCHANGED <<storeVars, proxyVars, lockVars>>

\* The caller takes the result; the next call can start.
Return ==
    /\ ~Idle
    /\ lastOp' = NoOp
    /\ UNCHANGED <<filesDir, metadataDir, currentTotalSize, expirationHours, maxTotalSizeMB,
                   now, faults, saved, proxyVars, lockVars>>

\* follow = TRUE makes this call the one the history follows.  The MIME type is
\* stored and never read by the store.
DoSaveFile(content, mimeType, apiKey, fault, follow) ==
    LET r == SaveFile(Store, content, mimeType, apiKey, now, expirationHours, maxTotalSizeMB, fault)
        fileID == GenerateFileID(now)
    IN  /\ Idle
        /\ currentTotalSize + SizeOf(content) <= MaxTotalBlocks * BytesPerMB
        /\ Inject(fault)
        /\ SetStore(r.st)
        /\ lastOp' = OpResult("SaveFile", fileID, apiKey, r.err, r.md, content, {}, {fileID})
        /\ IF follow
           THEN /\ saved = {}
                /\ r.err = ErrNil
                /\ saved' = {[id |-> fileID, key |-> apiKey, content |-> content,
                              expiresAt |-> r.md.ExpiresAt]}
           ELSE UNCHANGED saved
        /\ UNCHANGED <<expirationHours, maxTotalSizeMB, now, proxyVars, lockVars>>

ReadOnly == UNCHANGED <<filesDir, metadataDir, currentTotalSize, expirationHours,
                        maxTotalSizeMB, now, faults, saved, proxyVars, lockVars>>

DoGetFile(fileID) ==
    LET r == GetFile(metadataDir, fileID)
    IN  /\ Idle
        /\ lastOp' = OpResult("GetFile", fileID, "", r.err, r.md, << >>, {}, r.touched)
        /\ ReadOnly

DoGetFileForAPIKey(fileID, apiKey) ==
    LET r == GetFileForAPIKey(metadataDir, fileID, apiKey, now)
    IN  /\ Idle
        /\ lastOp' = OpResult("GetFileForAPIKey", fileID, apiKey, r.err, r.md, << >>, {}, r.touched)
        /\ ReadOnly

DoGetFileContent(fileID) ==
    LET r == GetFileContent(filesDir, metadataDir, fileID, now)
    IN  /\ Idle
        /\ lastOp' = OpResult("GetFileContent", fileID, "", r.err, r.md, r.data, {}, r.touched)
        /\ ReadOnly

\* maxBytes is kept in the key-independent field list of the result.
DoReadFileBytesForAPIKey(fileID, apiKey, maxBytes) ==
    LET r == ReadFileBytesForAPIKey(filesDir, metadataDir, fileID, apiKey, maxBytes, now)
    IN  /\ Idle
        /\ lastOp' = OpResult("ReadFileBytesForAPIKey", fileID, apiKey, r.err, r.md, r.data,
                              {maxBytes}, r.touched)
        /\ ReadOnly

DoListFiles ==
    /\ Idle
    /\ lastOp' = OpResult("ListFiles", << >>, "", ErrNil, NilMetadata, << >>,
                          ListFiles(metadataDir, now), {})
    /\ ReadOnly

DoListFilesForAPIKey(apiKey) ==
    /\ Idle
    /\ lastOp' = OpResult("ListFilesForAPIKey", << >>, apiKey, ErrNil, NilMetadata, << >>,
                          ListFilesForAPIKey(metadataDir, apiKey, now), {})
    /\ ReadOnly

\* The history stops following a save once a delete or a sweep went for its id.
Forget(ids) == {s \in saved : s.id \notin ids}

DoDeleteFile(fileID, fault) ==
    LET r == DeleteFile(Store, fileID, fault)
    IN  /\ Idle
        /\ Inject(fault)
        /\ SetStore(r.st)
        /\ lastOp' = OpResult("DeleteFile", fileID, "", r.err, NilMetadata, << >>, {}, r.touched)
        /\ saved' = Forget({fileID})
        /\ UNCHANGED <<expirationHours, maxTotalSizeMB, now, proxyVars, lockVars>>

\* DeleteFileForAPIKey: GetFileForAPIKey, the second expiry check, DeleteFile.
DeleteFileForAPIKey(st, fileID, apiKey, t, fault) ==
    LET r == GetFileForAPIKey(st.metadataDir, fileID, apiKey, t)
    IN  IF r.err # ErrNil THEN [st |-> st, err |-> r.err, touched |-> r.touched]
        ELSE IF isExpired(r.md, t) THEN [st |-> st, err |-> ErrFileNotFound, touched |-> r.touched]
        ELSE DeleteFile(st, fileID, fault)

DoDeleteFileForAPIKey(fileID, apiKey, fault) ==
    LET r == DeleteFileForAPIKey(Store, fileID, apiKey, now, fault)
    IN  /\ Idle
        /\ Inject(fault)
        /\ SetStore(r.st)
        /\ lastOp' = OpResult("DeleteFileForAPIKey", fileID, apiKey, r.err, NilMetadata,
                              << >>, {}, r.touched)
        /\ saved' = IF r.st = Store THEN saved ELSE Forget({fileID})
        /\ UNCHANGED <<expirationHours, maxTotalSizeMB, now, proxyVars, lockVars>>

DoCleanupExpiredFiles(fault) ==
    LET targets == sweepTargets(metadataDir, now)
    IN  /\ Idle
        /\ Inject(fault)
        /\ SetStore(cleanupExpiredFiles(Store, now, fault))
        /\ lastOp' = OpResult("cleanupExpiredFiles", << >>, "", ErrNil, NilMetadata, << >>, {}, targets)
        /\ saved' = Forget(targets)
        /\ UNCHANGED <<expirationHours, maxTotalSizeMB, now, proxyVars, lockVars>>

NextStore ==
    \/ Tick
    \/ Return
    \/ \E content \in Contents, apiKey \in Keys, fault \in SaveFaults :
          DoSaveFile(content, "text/plain", apiKey, fault, FALSE)
    \/ \E fileID \in RequestIDs : DoGetFile(fileID)
    \/ \E fileID \in RequestIDs, apiKey \in Keys : DoGetFileForAPIKey(fileID, apiKey)
    \/ \E fileID \in RequestIDs : DoGetFileContent(fileID)
    \/ \E fileID \in RequestIDs, apiKey \in Keys, maxBytes \in ReadLimits :
          DoReadFileBytesForAPIKey(fileID, apiKey, maxBytes)
    \/ DoListFiles
    \/ \E apiKey \in Keys : DoListFilesForAPIKey(apiKey)
    \/ \E fileID \in RequestIDs, fault \in DeleteFaults : DoDeleteFile(fileID, fault)
    \/ \E fileID \in RequestIDs, apiKey \in Keys, fault \in DeleteFaults :
          DoDeleteFileForAPIKey(fileID, apiKey, fault)
    \/ \E fault \in DeleteFaults : DoCleanupExpiredFiles(fault)

\* The file store under every sequence of its calls, clock readings and I/O faults.
Spec == Init /\ [][NextStore]_vars

\* The file store followed from one successful SaveFile on, with no I/O fault:
\* saves, reads by the owner-scoped calls, deletes, sweeps and clock readings.
NextRoundTrip ==
    \/ Tick
    \/ Return
    \/ \E content \in Contents, apiKey \in Keys, follow \in BOOLEAN :
          DoSaveFile(content, "text/plain", apiKey, "none", follow)
    \/ \E fileID \in FileIDs, apiKey \in Keys : DoGetFileForAPIKey(fileID, apiKey)
    \/ \E fileID \in FileIDs, apiKey \in Keys : DoReadFileBytesForAPIKey(fileID, apiKey, 0)
    \/ \E fileID \in FileIDs : DoDeleteFile(fileID, "none")
    \/ DoCleanupExpiredFiles("none")

SpecRoundTrip == Init /\ [][NextRoundTrip]_vars

\* ------------------------------------------------- local mode: requests
\* The parts a request carries: references to the ids the store hands out, in
\* either spelling, with and without a declared MIME type; a part that holds
\* both members, the snake_case one without a URI; a "files/" URI that is not
\* followed by a file id; an upstream URL; a part with no reference.
ShortURI == FilesPrefix \o <<"a", "b", "c", "1", "2", "3">>
UpstreamURI ==
    <<"h", "t", "t", "p", "s", ":", "/", "/", "g", "/", "v", "1", "/">> \o ShortURI

RequestParts ==
    {"file_data" :> [file_uri |-> LocalURI(GenerateFileID(0)), mime_type |-> m] :
        m \in {"", "audio/mpeg"}}
    \cup {"fileData" :> [fileUri |-> LocalURI(GenerateFileID(t)), mimeType |-> ""] : t \in {0, 1}}
    \cup {("file_data" :> [file_uri |-> << >>, mime_type |-> "audio/mpeg"])
              @@ ("fileData" :> [fileUri |-> LocalURI(GenerateFileID(0)), mimeType |-> ""])}
    \cup {"file_data" :> [file_uri |-> ShortURI, mime_type |-> "audio/mpeg"]}
    \cup {"file_data" :> [file_uri |-> UpstreamURI, mime_type |-> ""]}
    \cup {"text" :> "hello"}

\* The references among them that a request of several parts is made of.
ReferenceParts ==
    {"file_data" :> [file_uri |-> LocalURI(GenerateFileID(0)), mime_type |-> "audio/mpeg"]}
    \cup {"fileData" :> [fileUri |-> LocalURI(GenerateFileID(t)), mimeType |-> ""] : t \in {0, 1}}

\* Requests: one without contents, those of one part, those of several references.
RequestPayloads ==
    {[model |-> "m"]}
    \cup {[contents |-> <<[role |-> "user", parts |-> parts]>>] :
             parts \in [1..1 -> RequestParts]
                       \cup UNION {[1..n -> ReferenceParts] : n \in 2..MaxParts}}

\* The keys of the callers that send requests.
RequestKeys == Keys \ {""}

\* What rewriteLocalFileParts leaves in lastOp when it returns.
RewriteResult(apiKey, payload, r) ==
    [op |-> "rewriteLocalFileParts", key |-> apiKey, payload |-> payload, out |-> r.payload,
     err |-> r.err]

DoRewriteLocalFileParts(payload, apiKey) ==
    /\ Idle
    /\ lastOp' = RewriteResult(apiKey, payload,
                               rewriteLocalFileParts(payload, filesDir, metadataDir, apiKey, now))
    /\ ReadOnly

\* handleResumableStart of the local handler: a body that does not bind as JSON
\* is answered 400; any other gets a session id and the protocol headers.
handleResumableStart(validBody, t) ==
    IF ~validBody
    THEN [status |-> 400, headers |-> [name \in {} |-> ""],
          body |-> [error |-> [message |-> "invalid metadata", status |-> "INVALID_ARGUMENT"]]]
    ELSE [status |-> 200,
          headers |-> [uploadURL |-> URL("", "", UploadPath,
                                         [name \in {"upload_id"} |-> GenerateFileID(t)]),
                       uploadStatus |-> "active",
                       chunkGranularity |-> "262144"],
          body |-> [name \in {} |-> ""]]

DoResumableStart(apiKey, validBody) ==
    /\ Idle
    /\ lastOp' = [op |-> "handleResumableStart", key |-> apiKey, valid |-> validBody,
                  resp |-> handleResumableStart(validBody, now)]
    /\ ReadOnly

\* A content larger than a request may inline.
BigContent == [i \in 1..(maxInlineFileBytes \div BytesPerMB + 1) |-> "x"]

EmptyStore == [filesDir |-> EmptyDir, metadataDir |-> EmptyDir, currentTotalSize |-> 0]

\* NewGeminiFileStore on a base directory: empty, or holding the file an
\* earlier run of the server saved there within the hour.
StartStores(expHours) ==
    {EmptyStore,
     SaveFile(EmptyStore, BigContent, "text/plain", "key-a", 0, expHours, 0, "none").st}

InitLocal ==
    /\ expirationHours \in 1..MaxExpirationHours
    /\ maxTotalSizeMB \in 0..MaxQuotaMB
    /\ \E st \in StartStores(expirationHours) :
          /\ filesDir = st.filesDir
          /\ metadataDir = st.metadataDir
          /\ currentTotalSize = st.currentTotalSize
    /\ now = 0
    /\ faults = 0
    /\ lastOp = NoOp
    /\ saved = {}
    /\ InitProxy
    /\ InitLocks

NextLocal ==
    \/ Tick
    \/ Return
    \/ \E content \in Contents, apiKey \in Keys :
          DoSaveFile(content, "text/plain", apiKey, "none", FALSE)
    \/ \E payload \in RequestPayloads, apiKey \in RequestKeys :
          DoRewriteLocalFileParts(payload, apiKey)
    \/ \E apiKey \in RequestKeys, validBody \in BOOLEAN : DoResumableStart(apiKey, validBody)

\* Local mode with no I/O fault: uploads, resumable starts, and requests whose
\* file references are inlined from the store.
SpecLocal == InitLocal /\ [][NextLocal]_vars

\* ------------------------------------------------ local handlers: requests
\* Header and parameter values are sequences of characters; the store is given
\* the key as a string.
BearerPrefix == <<"B", "e", "a", "r", "e", "r", " ">>
CharsKeyA == <<"k", "e", "y", "-", "a">>
CharsKeyB == <<"k", "e", "y", "-", "b">>
StringOf(chars) ==
    CASE chars = << >> -> ""
      [] chars = CharsKeyA -> "key-a"
      [] chars = CharsKeyB -> "key-b"
      [] OTHER -> "key-other"

\* c.Get("apiKey"): nothing, a string, or a value of another type.
NoContextValue == [exists |-> FALSE, isString |-> FALSE, value |-> << >>]
ContextValues ==
    {NoContextValue,
     [exists |-> TRUE, isString |-> TRUE, value |-> CharsKeyB],
     [exists |-> TRUE, isString |-> FALSE, value |-> << >>]}

\* The requests of the callers: what the context holds, the Authorization
\* header (none, a bearer token, another scheme), the X-Goog-Api-Key header and
\* the key parameter.  Every combination of the three request sources comes
\* with an empty context; a context value comes with all of them and with none.
AuthorizationValues ==
    {<< >>, BearerPrefix \o CharsKeyA, <<"B", "a", "s", "i", "c", " ">> \o CharsKeyB}
LocalRequests ==
    [ctxKey : {NoContextValue}, authorization : AuthorizationValues,
     googKey : {<< >>, CharsKeyA}, queryKey : {<< >>, CharsKeyB}]
    \cup [ctxKey : ContextValues \ {NoContextValue}, authorization : {BearerPrefix \o CharsKeyA},
          googKey : {CharsKeyA}, queryKey : {CharsKeyA}]
    \cup [ctxKey : ContextValues \ {NoContextValue}, authorization : {<< >>},
          googKey : {<< >>}, queryKey : {<< >>}]

extractAPIKey_HeadersOnly(c) ==
    IF c.ctxKey.exists /\ c.ctxKey.isString THEN c.ctxKey.value
    ELSE IF HasPrefix(c.authorization, BearerPrefix)
    THEN TrimPrefix(c.authorization, BearerPrefix)
    ELSE IF c.googKey # << >> THEN c.googKey
    ELSE << >>

\* extractAPIKey: the context value the auth middleware set, then the bearer
\* token, then X-Goog-Api-Key, then the key parameter.
extractAPIKey(c) ==
    IF c.ctxKey.exists /\ c.ctxKey.isString THEN c.ctxKey.value
    ELSE IF HasPrefix(c.authorization, BearerPrefix)
    THEN TrimPrefix(c.authorization, BearerPrefix)
    ELSE IF c.googKey # << >> THEN c.googKey
    ELSE IF c.queryKey # << >> THEN c.queryKey
    ELSE << >>

\* The upload_id parameters of a finalize: none, ids of 7 and 8 characters,
\* and the id a start handed out.
FinalizeUploadIDs ==
    {<< >>, SubSeq(GenerateFileID(0), 1, 7), SubSeq(GenerateFileID(0), 1, 8), GenerateFileID(0)}

\* gin.H{"error": {"message", "status"}}
LocalError(message, status) == [error |-> [message |-> message, status |-> status]]

\* The file resource a handler renders from a FileMetadata.
FileResource(md) ==
    [name |-> LocalURI(md.FileID), mimeType |-> md.MimeType, sizeBytes |-> md.SizeBytes,
     expirationTime |-> md.ExpiresAt, sha256Hash |-> md.SHA256Hash, uri |-> LocalURI(md.FileID),
     state |-> "ACTIVE"]

\* What a local handler answers: panicked says the handler was aborted by a
\* run-time panic before it wrote anything; saves counts the SaveFile calls and
\* key is the caller key given to the store.
LocalResponse(panicked, status, uploadStatus, body, saves, key) ==
    [panicked |-> panicked, status |-> status, uploadStatus |-> uploadStatus, body |-> body,
     saves |-> saves, key |-> key]

\* handleResumableFinalize: the display name is made of uploadID[:8], a slice
\* that panics when the id has fewer than 8 characters; the body is then saved
\* under the caller's key.
handleResumableFinalize(st, c, uploadID, content, t, expHours, maxMB, fault) ==
    LET apiKey == StringOf(extractAPIKey(c))
        r      == SaveFile(st, content, "text/plain", apiKey, t, expHours, maxMB, fault)
    IN  IF uploadID = << >>
        THEN [st |-> st,
              resp |-> LocalResponse(FALSE, 400, "",
                                     LocalError("missing upload_id parameter", "INVALID_ARGUMENT"),
                                     0, "")]
        ELSE IF Len(uploadID) < 8
        THEN [st |-> st, resp |-> LocalResponse(TRUE, 0, "", [name \in {} |-> ""], 0, "")]
        ELSE IF r.err # ErrNil
        THEN [st |-> r.st,
              resp |-> LocalResponse(FALSE, 500, "failed",
                                     LocalError("failed to save file", "INTERNAL"), 1, apiKey)]
        ELSE [st |-> r.st,
              resp |-> LocalResponse(FALSE, 200, "final", [file |-> FileResource(r.md)], 1, apiKey)]

\* GetFile of the local handler.
LocalGetFile(mdDir, c, fileID, t) ==
    LET apiKey == StringOf(extractAPIKey(c))
        r      == GetFileForAPIKey(mdDir, TrimPrefix(fileID, FilesPrefix), apiKey, t)
    IN  IF fileID = << >>
        THEN LocalResponse(FALSE, 400, "", LocalError("missing fileId parameter", "INVALID_ARGUMENT"),
                           0, "")
        ELSE IF r.err = ErrFileNotFound
        THEN LocalResponse(FALSE, 404, "", LocalError("file not found", "NOT_FOUND"), 0, apiKey)
        ELSE IF r.err # ErrNil
        THEN LocalResponse(FALSE, 500, "", LocalError("failed to get file", "INTERNAL"), 0, apiKey)
        ELSE LocalResponse(FALSE, 200, "", FileResource(r.md), 0, apiKey)

\* ListFiles of the local handler.
LocalListFiles(mdDir, c, t) ==
    LET apiKey == StringOf(extractAPIKey(c))
    IN  LocalResponse(FALSE, 200, "",
                      [files |-> {FileResource(md) : md \in ListFilesForAPIKey(mdDir, apiKey, t)}],
                      0, apiKey)

\* DeleteFile of the local handler.
LocalDeleteFile(st, c, fileID, t, fault) ==
    LET apiKey == StringOf(extractAPIKey(c))
        r      == DeleteFileForAPIKey(st, TrimPrefix(fileID, FilesPrefix), apiKey, t, fault)
    IN  IF fileID = << >>
        THEN [st |-> st,
              resp |-> LocalResponse(FALSE, 400, "",
                                     LocalError("missing fileId parameter", "INVALID_ARGUMENT"),
                                     0, "")]
        ELSE IF r.err = ErrFileNotFound
        THEN [st |-> r.st,
              resp |-> LocalResponse(FALSE, 404, "", LocalError("file not found", "NOT_FOUND"),
                                     0, apiKey)]
        ELSE IF r.err # ErrNil
        THEN [st |-> r.st,
              resp |-> LocalResponse(FALSE, 500, "",
                                     LocalError("failed to delete file", "INTERNAL"), 0, apiKey)]
        ELSE [st |-> r.st, resp |-> LocalResponse(FALSE, 204, "", [name \in {} |-> ""], 0, apiKey)]

\* What a call of a local handler leaves in lastOp.
HandlerResult(op, c, fileID, content, before, resp) ==
    [op |-> op, c |-> c, id |-> fileID, content |-> content, before |-> before, resp |-> resp]

DoResumableFinalize(c, uploadID, content, fault) ==
    LET r == handleResumableFinalize(Store, c, uploadID, content, now, expirationHours,
                                     maxTotalSizeMB, fault)
    IN  /\ Idle
        /\ currentTotalSize + SizeOf(content) <= MaxTotalBlocks * BytesPerMB
        /\ Inject(fault)
        /\ SetStore(r.st)
        /\ lastOp' = HandlerResult("handleResumableFinalize", c, uploadID, content, Store, r.resp)
        /\ UNCHANGED <<expirationHours, maxTotalSizeMB, now, saved, proxyVars, lockVars>>

DoLocalGetFile(c, fileID) ==
    /\ Idle
    /\ lastOp' = HandlerResult("GetFile", c, fileID, << >>, Store,
                               LocalGetFile(metadataDir, c, fileID, now))
    /\ ReadOnly

DoLocalListFiles(c) ==
    /\ Idle
    /\ lastOp' = HandlerResult("ListFiles", c, << >>, << >>, Store,
                               LocalListFiles(metadataDir, c, now))
    /\ ReadOnly

DoLocalDeleteFile(c, fileID, fault) ==
    LET r == LocalDeleteFile(Store, c, fileID, now, fault)
    IN  /\ Idle
        /\ Inject(fault)
        /\ SetStore(r.st)
        /\ lastOp' = HandlerResult("DeleteFile", c, fileID, << >>, Store, r.resp)
        /\ UNCHANGED <<expirationHours, maxTotalSizeMB, now, saved, proxyVars, lockVars>>

\* The file ids of the requests: none, ids the store handed out, bare or as a
\* resource name.
HandlerFileIDs == {<< >>, GenerateFileID(0), LocalURI(GenerateFileID(1))}

NextLocalHandlers ==
    \/ Tick
    \/ Return
    \/ \E c \in LocalRequests, uploadID \in FinalizeUploadIDs, content \in {<<"x">>},
          fault \in SaveFaults :
          DoResumableFinalize(c, uploadID, content, fault)
    \/ \E c \in LocalRequests, fileID \in HandlerFileIDs : DoLocalGetFile(c, fileID)
    \/ \E c \in LocalRequests : DoLocalListFiles(c)
    \/ \E c \in LocalRequests, fileID \in HandlerFileIDs, fault \in DeleteFaults :
          DoLocalDeleteFile(c, fileID, fault)

\* The handlers of local mode on a store whose operations can meet I/O failures.
SpecLocalHandlers == Init /\ [][NextLocalHandlers]_vars

\* ----------------------------------------------- FileStore: bounded reads
\* What a base directory holds when the store is opened on it: the record of an
\* earlier run, whose content file has the size its sidecar declares or another.
OnDiskContents == {<< >>, <<"x">>, <<"x", "y">>}

OnDiskStore(content, declared, expHours) ==
    LET fileID == GenerateFileID(0)
        md     == newMetadata(fileID, declared, "text/plain", "key-a", 0, expHours)
    IN  [filesDir |-> PutEntry(EmptyDir, fileID, content),
         metadataDir |-> PutEntry(EmptyDir, fileID, Sidecar(md)),
         currentTotalSize |-> SizeOf(content)]

\* Byte ceilings of a bounded read: none, half a block, one block.
BoundedReadLimits == {0, BytesPerMB \div 2, BytesPerMB}

InitBoundedRead ==
    /\ expirationHours \in 1..MaxExpirationHours
    /\ maxTotalSizeMB \in 0..MaxQuotaMB
    /\ \E content \in OnDiskContents, declared \in OnDiskContents :
          LET st == OnDiskStore(content, declared, expirationHours)
          IN  /\ filesDir = st.filesDir
              /\ metadataDir = st.metadataDir
              /\ currentTotalSize = st.currentTotalSize
    /\ now = 0
    /\ faults = 0
    /\ lastOp = NoOp
    /\ saved = {}
    /\ InitProxy
    /\ InitLocks

NextBoundedRead ==
    \/ Tick
    \/ Return
    \/ \E fileID \in RequestIDs, apiKey \in Keys, maxBytes \in BoundedReadLimits :
          DoReadFileBytesForAPIKey(fileID, apiKey, maxBytes)

\* ReadFileBytesForAPIKey applied to every record a base directory can hold.
SpecBoundedRead == InitBoundedRead /\ [][NextBoundedRead]_vars

\* ------------------------------------------- FileStore: concurrent callers
\* Every FileStore call is followed statement by statement; pc names the
\* statement the goroutine is at.  SaveFile, DeleteFile and cleanupExpiredFiles
\* take mu.Lock, GetFile, GetFileContent and ListFiles take mu.RLock.
WriteOps == {"SaveFile", "DeleteFile", "cleanupExpiredFiles"}
ReadOps == {"GetFile", "GetFileContent", "ListFiles"}

\* sync.RWMutex: Lock waits for the writer and all readers to leave, RLock for
\* the writer.
CanLock(m) == m.writer = NoGoroutine /\ m.readers = {}

CanRLock_Unguarded(m) == TRUE

CanRLock(m) == m.writer = NoGoroutine

StoreUnchanged == UNCHANGED <<filesDir, metadataDir, currentTotalSize>>
ConfigUnchanged ==
    UNCHANGED <<expirationHours, maxTotalSizeMB, now, faults, lastOp, saved, proxyVars, routine>>

Goto(g, pc) == calls' = [calls EXCEPT ![g].pc = pc]

\* The first statement of a call after its lock.
FirstStatement(op) ==
    CASE op = "SaveFile" -> "generateFileID"
      [] op = "DeleteFile" -> "isValidFileID"
      [] op = "DeleteFileForAPIKey" -> "GetFileForAPIKey"
      [] op = "cleanupExpiredFiles" -> "ReadDir"
      [] OTHER -> "read"

\* A goroutine calls the store.  stalled: the content stream of a SaveFile
\* delivers nothing.
Enter(g, op, fileID, content, stalled) ==
    /\ calls[g] = NoCall
    /\ op = "SaveFile" =>
          currentTotalSize
            + SizeOf(content) * (1 + Cardinality({h \in Goroutines : calls[h].op = "SaveFile"}))
          <= MaxTotalBlocks * BytesPerMB
    /\ calls' = [calls EXCEPT ![g] =
                    [NoCall EXCEPT !.op = op,
                                   !.pc = IF op \in WriteOps THEN "Lock" ELSE "RLock",
                                   !.id = fileID, !.content = content, !.stalled = stalled]]
    /\ UNCHANGED mu
    /\ StoreUnchanged
    /\ ConfigUnchanged

\* The context of the caller is cancelled.  No statement of the store reads it.
Cancel(g) ==
    /\ calls[g].op # "none"
    /\ ~calls[g].cancelled
    /\ calls' = [calls EXCEPT ![g].cancelled = TRUE]
    /\ UNCHANGED mu
    /\ StoreUnchanged
    /\ ConfigUnchanged

Lock(g) ==
    /\ calls[g].pc = "Lock"
    /\ CanLock(mu)
    /\ mu' = [mu EXCEPT !.writer = g]
    /\ Goto(g, FirstStatement(calls[g].op))
    /\ StoreUnchanged
    /\ ConfigUnchanged

RLock(g) ==
    /\ calls[g].pc = "RLock"
    /\ CanRLock(mu)
    /\ mu' = [mu EXCEPT !.readers = @ \cup {g}]
    /\ Goto(g, FirstStatement(calls[g].op))
    /\ StoreUnchanged
    /\ ConfigUnchanged

\* The deferred Unlock; the call returns.
Unlock(g) ==
    /\ calls[g].pc = "Unlock"
    /\ mu' = [mu EXCEPT !.writer = NoGoroutine]
    /\ calls' = [calls EXCEPT ![g] = NoCall]
    /\ StoreUnchanged
    /\ ConfigUnchanged

RUnlock(g) ==
    /\ calls[g].pc = "RUnlock"
    /\ mu' = [mu EXCEPT !.readers = @ \ {g}]
    /\ calls' = [calls EXCEPT ![g] = NoCall]
    /\ StoreUnchanged
    /\ ConfigUnchanged

\* GetFile, GetFileContent, ListFiles: the body reads the directories.
ReadBody(g) ==
    /\ calls[g].pc = "read"
    /\ calls' = [calls EXCEPT ![g].pc = "RUnlock",
                              ![g].err = CASE calls[g].op = "GetFile" ->
                                                GetFile(metadataDir, calls[g].id).err
                                           [] calls[g].op = "GetFileContent" ->
                                                GetFileContent(filesDir, metadataDir, calls[g].id, now).err
                                           [] OTHER -> ErrNil]
    /\ UNCHANGED mu
    /\ StoreUnchanged
    /\ ConfigUnchanged

\* SaveFile: generateFileID and os.Create of the temporary file.
SaveCreate(g) ==
    /\ calls[g].pc = "generateFileID"
    /\ calls' = [calls EXCEPT ![g].pc = "Copy", ![g].id = GenerateFileID(now)]
    /\ UNCHANGED mu
    /\ StoreUnchanged
    /\ ConfigUnchanged

\* io.Copy returns when the stream has delivered the content; the body of a
\* request whose context is cancelled fails the read.
SaveCopy(g) ==
    /\ calls[g].pc = "Copy"
    /\ \/ /\ ~calls[g].stalled
          /\ Goto(g, IF quotaExceeded(currentTotalSize, SizeOf(calls[g].content), maxTotalSizeMB)
                     THEN "Unlock" ELSE "Rename")
       \/ /\ calls[g].stalled
          /\ calls[g].cancelled
          /\ calls' = [calls EXCEPT ![g].pc = "Unlock", ![g].err = "failed to write file content"]
    /\ UNCHANGED mu
    /\ StoreUnchanged
    /\ ConfigUnchanged

SaveRename(g) ==
    /\ calls[g].pc = "Rename"
    /\ filesDir' = PutEntry(filesDir, calls[g].id, calls[g].content)
    /\ Goto(g, "count")
    /\ UNCHANGED <<mu, metadataDir, currentTotalSize>>
    /\ ConfigUnchanged

SaveCount(g) ==
    /\ calls[g].pc = "count"
    /\ currentTotalSize' = currentTotalSize + SizeOf(calls[g].content)
    /\ Goto(g, "saveMetadata")
    /\ UNCHANGED <<mu, filesDir, metadataDir>>
    /\ ConfigUnchanged

SaveMetadata(g) ==
    /\ calls[g].pc = "saveMetadata"
    /\ metadataDir' = PutEntry(metadataDir, calls[g].id,
                               Sidecar(newMetadata(calls[g].id, calls[g].content, "text/plain",
                                                   "key-a", now, expirationHours)))
    /\ Goto(g, "Unlock")
    /\ UNCHANGED <<mu, filesDir, currentTotalSize>>
    /\ ConfigUnchanged

\* Where deleteFileUnsafe returns to.
AfterDelete(op) == IF op = "cleanupExpiredFiles" THEN "range" ELSE "Unlock"

DeleteValidate(g) ==
    /\ calls[g].pc = "isValidFileID"
    /\ IF isValidFileID(calls[g].id)
       THEN Goto(g, "Stat")
       ELSE calls' = [calls EXCEPT ![g].pc = AfterDelete(calls[g].op), ![g].err = ErrFileNotFound]
    /\ UNCHANGED mu
    /\ StoreUnchanged
    /\ ConfigUnchanged

\* os.Stat and the decrement of the counter.  The history forgets a file
\* whose size has been taken off the counter.
DeleteStat(g) ==
    /\ calls[g].pc = "Stat"
    /\ currentTotalSize' = IF calls[g].id \in DOMAIN filesDir
                           THEN currentTotalSize - SizeOf(filesDir[calls[g].id])
                           ELSE currentTotalSize
    /\ saved' = IF calls[g].id \in DOMAIN filesDir THEN Forget({calls[g].id}) ELSE saved
    /\ Goto(g, "RemoveFile")
    /\ UNCHANGED <<mu, filesDir, metadataDir>>
    /\ UNCHANGED <<expirationHours, maxTotalSizeMB, now, faults, lastOp, proxyVars, routine>>

DeleteRemoveFile(g) ==
    /\ calls[g].pc = "RemoveFile"
    /\ filesDir' = RemoveEntry(filesDir, calls[g].id)
    /\ Goto(g, "RemoveMetadata")
    /\ UNCHANGED <<mu, metadataDir, currentTotalSize>>
    /\ ConfigUnchanged

DeleteRemoveMetadata(g) ==
    /\ calls[g].pc = "RemoveMetadata"
    /\ metadataDir' = RemoveEntry(metadataDir, calls[g].id)
    /\ Goto(g, AfterDelete(calls[g].op))
    /\ UNCHANGED <<mu, filesDir, currentTotalSize>>
    /\ ConfigUnchanged

\* cleanupExpiredFiles: os.ReadDir of the metadata directory and time.Now().
CleanupReadDir(g) ==
    /\ calls[g].pc = "ReadDir"
    /\ calls' = [calls EXCEPT ![g].pc = "range", ![g].entries = DOMAIN metadataDir, ![g].t = now]
    /\ UNCHANGED mu
    /\ StoreUnchanged
    /\ ConfigUnchanged

\* One round of the loop over the entries: an entry whose sidecar loads and
\* whose ExpiresAt has passed is given to deleteFileUnsafe.
CleanupRange(g) ==
    /\ calls[g].pc = "range"
    /\ IF calls[g].entries = {} THEN Goto(g, "Unlock")
       ELSE LET fileID == CHOOSE id \in calls[g].entries : TRUE
                r      == loadMetadata(metadataDir, fileID)
            IN  calls' = [calls EXCEPT ![g].entries = @ \ {fileID},
                                       ![g].id = fileID,
                                       ![g].pc = IF r.err = ErrNil /\ calls[g].t > r.md.ExpiresAt
                                                 THEN "isValidFileID" ELSE "range"]
    /\ UNCHANGED mu
    /\ StoreUnchanged
    /\ ConfigUnchanged

\* The ids the handlers ask for.
CallerIDs == FileIDs \cup {<<".", ".">>}

NextStoreCalls ==
    \/ Tick
    \/ \E g \in Handlers, stalled \in BOOLEAN : Enter(g, "SaveFile", << >>, <<"x">>, stalled)
    \/ \E g \in Handlers, op \in {"DeleteFile", "GetFile", "GetFileContent"}, fileID \in CallerIDs :
          Enter(g, op, fileID, << >>, FALSE)
    \/ \E g \in Handlers : Enter(g, "ListFiles", << >>, << >>, FALSE)
    \/ Enter(CleanupRoutine, "cleanupExpiredFiles", << >>, << >>, FALSE)
    \/ \E g \in Handlers : Cancel(g)
    \/ \E g \in Goroutines : Lock(g)
    \/ \E g \in Goroutines : RLock(g)
    \/ \E g \in Goroutines : Unlock(g)
    \/ \E g \in Goroutines : RUnlock(g)
    \/ \E g \in Goroutines : ReadBody(g)
    \/ \E g \in Goroutines : SaveCreate(g)
    \/ \E g \in Goroutines : SaveCopy(g)
    \/ \E g \in Goroutines : SaveRename(g)
    \/ \E g \in Goroutines : SaveCount(g)
    \/ \E g \in Goroutines : SaveMetadata(g)
    \/ \E g \in Goroutines : DeleteValidate(g)
    \/ \E g \in Goroutines : DeleteStat(g)
    \/ \E g \in Goroutines : DeleteRemoveFile(g)
    \/ \E g \in Goroutines : DeleteRemoveMetadata(g)
    \/ \E g \in Goroutines : CleanupReadDir(g)
    \/ \E g \in Goroutines : CleanupRange(g)

\* The file store called by concurrent goroutines, statement by statement.
SpecStoreCalls == Init /\ [][NextStoreCalls]_vars

\* The statements of the call a goroutine is in, its locks apart.
Statement(g) ==
    \/ Unlock(g) \/ RUnlock(g) \/ ReadBody(g)
    \/ SaveCreate(g) \/ SaveCopy(g) \/ SaveRename(g) \/ SaveCount(g) \/ SaveMetadata(g)
    \/ DeleteValidate(g) \/ DeleteStat(g) \/ DeleteRemoveFile(g) \/ DeleteRemoveMetadata(g)
    \/ CleanupReadDir(g) \/ CleanupRange(g)

\* The scheduler runs every goroutine that can take a step, and a goroutine
\* waiting for the mutex gets it when it is free again and again (the mutex
\* hands over to waiters in starvation mode).
FairCalls ==
    \A g \in Goroutines : WF_vars(Statement(g)) /\ SF_vars(Lock(g)) /\ SF_vars(RLock(g))

SpecStoreCallsFair == Init /\ [][NextStoreCalls]_vars /\ FairCalls

\* ------------------------------------------- FileStore: the cleanup routine
\* An hour passes: a running ticker puts a tick into its channel, which holds
\* one tick and drops those that find it full.
TickerFires ==
    /\ Idle
    /\ now < MaxTime
    /\ now' = now + 1
    /\ routine' = IF routine.ticker = "running" THEN [routine EXCEPT !.tick = TRUE] ELSE routine
    /\ UNCHANGED <<storeVars, proxyVars, mu, calls>>

\* case <-s.cleanupTicker.C: the select of the goroutine takes the tick.  With
\* the stop channel closed as well the select chooses either case.
RoutineReceiveTick ==
    /\ routine.pc = "select"
    /\ routine.tick
    /\ routine' = [routine EXCEPT !.tick = FALSE, !.pc = "tick"]
    /\ UNCHANGED <<storeVars, now, proxyVars, mu, calls>>

\* case <-s.cleanupStop: the goroutine returns.
RoutineReceiveStop ==
    /\ routine.pc = "select"
    /\ routine.stop
    /\ routine' = [routine EXCEPT !.pc = "exited"]
    /\ UNCHANGED <<storeVars, now, proxyVars, mu, calls>>

\* s.cleanupExpiredFiles() of the goroutine, then its loop is at the select again.
RoutineSweep ==
    LET targets == sweepTargets(metadataDir, now)
    IN  /\ routine.pc = "tick"
        /\ Idle
        /\ SetStore(cleanupExpiredFiles(Store, now, "none"))
        /\ lastOp' = OpResult("cleanupExpiredFiles", << >>, "", ErrNil, NilMetadata, << >>, {}, targets)
        /\ saved' = Forget(targets)
        /\ routine' = [routine EXCEPT !.pc = "select"]
        /\ UNCHANGED <<expirationHours, maxTotalSizeMB, now, faults, proxyVars, mu, calls>>

\* Close, first statement: s.cleanupTicker.Stop().  No more ticks are sent; a
\* tick that waits in the channel stays there or is discarded, as the timer
\* implementation of the build has it.
CloseStopTicker(discard) ==
    /\ routine.close = "none"
    /\ routine' = [routine EXCEPT !.ticker = "stopped",
                                  !.tick = IF discard THEN FALSE ELSE @,
                                  !.close = "stopped"]
    /\ UNCHANGED <<storeVars, now, proxyVars, mu, calls>>

\* Close, second statement: close(s.cleanupStop), and Close returns nil.  It
\* waits for nothing.
CloseStopChannel ==
    /\ routine.close = "stopped"
    /\ routine' = [routine EXCEPT !.stop = TRUE, !.close = "returned"]
    /\ UNCHANGED <<storeVars, now, proxyVars, mu, calls>>

NextCleanupRoutine ==
    \/ TickerFires
    \/ Return
    \/ \E content \in Contents, apiKey \in Keys :
          DoSaveFile(content, "text/plain", apiKey, "none", FALSE)
    \/ RoutineReceiveTick
    \/ RoutineReceiveStop
    \/ RoutineSweep
    \/ \E discard \in BOOLEAN : CloseStopTicker(discard)
    \/ CloseStopChannel

\* The store with its cleanup goroutine running, callers saving files, and a
\* Close at any moment.
SpecCleanupRoutine == Init /\ [][NextCleanupRoutine]_vars

\* ------------------------------------------- FileStore: delete by the owner
\* The key of the caller of DeleteFileForAPIKey.
OwnerKey == "key-a"

\* DeleteFileForAPIKey is called: its GetFileForAPIKey takes the read lock.
EnterOwnerDelete(g, fileID) ==
    /\ calls[g] = NoCall
    /\ calls' = [calls EXCEPT ![g] = [NoCall EXCEPT !.op = "DeleteFileForAPIKey", !.pc = "RLock",
                                                    !.id = fileID, !.key = OwnerKey]]
    /\ UNCHANGED mu
    /\ StoreUnchanged
    /\ ConfigUnchanged

\* GetFileForAPIKey under the read lock: the sidecar, its owner and its expiry.
OwnerCheck(g) ==
    LET r == GetFileForAPIKey(metadataDir, calls[g].id, calls[g].key, now)
    IN  /\ calls[g].pc = "GetFileForAPIKey"
        /\ calls' = [calls EXCEPT ![g].pc = "RUnlockOwner", ![g].err = r.err,
                                  ![g].t = r.md.ExpiresAt]
        /\ UNCHANGED mu
        /\ StoreUnchanged
        /\ ConfigUnchanged

\* The read lock is released; an error of the check ends DeleteFileForAPIKey.
OwnerRUnlock(g) ==
    /\ calls[g].pc = "RUnlockOwner"
    /\ mu' = [mu EXCEPT !.readers = @ \ {g}]
    /\ calls' = IF calls[g].err # ErrNil THEN [calls EXCEPT ![g] = NoCall]
                ELSE [calls EXCEPT ![g].pc = "isExpired"]
    /\ StoreUnchanged
    /\ ConfigUnchanged

\* s.isExpired(metadata, time.Now()) on the metadata the check returned, then
\* s.DeleteFile(ctx, fileID), which takes the write lock.
OwnerExpired(g) ==
    /\ calls[g].pc = "isExpired"
    /\ calls' = IF now > calls[g].t THEN [calls EXCEPT ![g] = NoCall]
                ELSE [calls EXCEPT ![g].op = "DeleteFile", ![g].pc = "Lock"]
    /\ UNCHANGED mu
    /\ StoreUnchanged
    /\ ConfigUnchanged

\* os.Remove of the content file fails with an error other than "does not
\* exist": deleteFileUnsafe returns it.
DeleteRemoveFileFails(g) ==
    /\ calls[g].pc = "RemoveFile"
    /\ calls[g].id \in DOMAIN filesDir
    /\ faults < MaxFaults
    /\ faults' = faults + 1
    /\ calls' = [calls EXCEPT ![g].pc = AfterDelete(calls[g].op), ![g].err = "failed to remove file"]
    /\ UNCHANGED <<mu, expirationHours, maxTotalSizeMB, now, lastOp, saved, proxyVars, routine>>
    /\ StoreUnchanged

\* A SaveFile call from Lock to Unlock, at a clock reading that no other save
\* has: the clock has moved on when the next call reads it.  The history keeps
\* the files whose size is on the counter.
SaveFileAlone(apiKey) ==
    LET r == SaveFile(Store, <<"x">>, "text/plain", apiKey, now, expirationHours,
                      maxTotalSizeMB, "none")
    IN  /\ CanLock(mu)
        /\ now < MaxTime
        /\ SetStore(r.st)
        /\ saved' = IF r.err = ErrNil
                    THEN saved \cup {[id |-> r.md.FileID, key |-> apiKey, content |-> <<"x">>,
                                      expiresAt |-> r.md.ExpiresAt]}
                    ELSE saved
        /\ now' = now + 1
        /\ UNCHANGED <<expirationHours, maxTotalSizeMB, faults, lastOp, proxyVars, lockVars>>

NextOwnerDelete ==
    \/ Tick
    \/ \E apiKey \in {"key-a", "key-b"} : SaveFileAlone(apiKey)
    \/ \E g \in Handlers, fileID \in FileIDs : EnterOwnerDelete(g, fileID)
    \/ \E g \in Handlers, fileID \in FileIDs : Enter(g, "DeleteFile", fileID, << >>, FALSE)
    \/ Enter(CleanupRoutine, "cleanupExpiredFiles", << >>, << >>, FALSE)
    \/ \E g \in Goroutines : Lock(g)
    \/ \E g \in Goroutines : RLock(g)
    \/ \E g \in Goroutines : Unlock(g)
    \/ \E g \in Goroutines : OwnerCheck(g)
    \/ \E g \in Goroutines : OwnerRUnlock(g)
    \/ \E g \in Goroutines : OwnerExpired(g)
    \/ \E g \in Goroutines : DeleteValidate(g)
    \/ \E g \in Goroutines : DeleteStat(g)
    \/ \E g \in Goroutines : DeleteRemoveFile(g)
    \/ \E g \in Goroutines : DeleteRemoveFileFails(g)
    \/ \E g \in Goroutines : DeleteRemoveMetadata(g)
    \/ \E g \in Goroutines : CleanupReadDir(g)
    \/ \E g \in Goroutines : CleanupRange(g)

\* Deletes by the owner, deletes by id and sweeps of concurrent goroutines,
\* statement by statement, on files saved at different clock readings.
SpecOwnerDelete == Init /\ [][NextOwnerDelete]_vars

\* ------------------------------------------------- upstream proxy: actions
ProxyTick ==
    /\ now < MaxProxyTime
    /\ now' = now + 1
    /\ UNCHANGED <<storeVars, proxyVars, lockVars>>

\* handleResumableStart and writeResumableStartResponse.  c is the request, err
\* the outcome of the executor; hasURL and hasSelected say whether its response carries an
\* X-Goog-Upload-URL header and a selected-credential id.
ResumableStart(c, pick, failedFirst, err, hasURL, hasSelected) ==
    LET r         == ManagerExecute(startOptions, pick, failedFirst)
        uploadURL == IF hasURL THEN UpstreamUploadURL(UploadIDOf(issued + 1)) ELSE NoURL
        uploadID  == extractUploadID(uploadURL)
        meta      == [SelectedAuthID |-> IF hasSelected THEN r.authID ELSE ""]
        bound     == bindSession(sessions, uploadID, authIDFromMetadata(meta), now)
    IN  /\ lastCall.n < MaxCalls
        /\ hasURL => issued < MaxUploads
        /\ err # NoErr => (~hasURL /\ ~hasSelected)
        /\ IF ~authManager
           THEN /\ lastResp' = ProxyErrorResponse("start", "", ErrNoAuthManager)
                /\ lastBody' = writeProxyError(ErrNoAuthManager).body
                /\ UNCHANGED <<lastCall, sessions, issued, boundAt>>
           ELSE /\ lastCall' = Call("start", "", startOptions, pick, r)
                /\ IF err # NoErr
                   THEN /\ lastResp' = ProxyErrorResponse("start", "", err)
                        /\ lastBody' = writeProxyError(err).body
                        /\ UNCHANGED <<sessions, issued, boundAt>>
                   ELSE /\ sessions' = IF uploadID # "" THEN bound ELSE sessions
                        /\ issued' = IF hasURL THEN issued + 1 ELSE issued
                        /\ boundAt' = IF uploadID # "" /\ bound # sessions
                                      THEN PutEntry(boundAt, uploadID, r.authID)
                                      ELSE boundAt
                        /\ lastResp' = Response("start", uploadID, 200, "",
                                                IF uploadID # ""
                                                THEN buildProxyUploadURL(c, uploadID)
                                                ELSE uploadURL)
                        /\ lastBody' = UpstreamPayload
        /\ UNCHANGED <<inflight, finalized, authManager, now, storeVars, lockVars>>

\* Follow-up requests between their lookup and their executor call: n is the
\* number of requests with this token, command and credential whose handlers
\* run at the same time.
FollowUp(uploadID, cmd, authID, n) ==
    [uploadID |-> uploadID, cmd |-> cmd, authID |-> authID, n |-> n]

\* The requests in flight with one more, and with one less, of a kind.
AddFollowUp(fl, uploadID, cmd, authID) ==
    IF \E req \in fl : req.uploadID = uploadID /\ req.cmd = cmd /\ req.authID = authID
    THEN {IF req.uploadID = uploadID /\ req.cmd = cmd /\ req.authID = authID
          THEN [req EXCEPT !.n = @ + 1] ELSE req : req \in fl}
    ELSE fl \cup {FollowUp(uploadID, cmd, authID, 1)}

RemoveFollowUp(fl, req) ==
    IF req.n > 1 THEN (fl \ {req}) \cup {[req EXCEPT !.n = @ - 1]} ELSE fl \ {req}

\* The number of requests in flight.
InFlight(fl) == Cardinality(UNION {{<<req, k>> : k \in 1..req.n} : req \in fl})

\* handleResumableFollowUp up to the session lookup: a request without a live
\* session is answered 400; the others go on to the executor.
FollowUpLookup(uploadID, cmd) ==
    LET r == sessionAuthID(sessions, uploadID, now)
    IN  /\ sessions' = r.sessions
        /\ IF ~r.ok
           THEN /\ lastResp' = Response("followUp", uploadID, 400, "INVALID_ARGUMENT", NoURL)
                /\ lastBody' = writeGeminiFileError("missing or expired upload_id",
                                                    "INVALID_ARGUMENT")
                /\ UNCHANGED inflight
           ELSE /\ InFlight(inflight) < MaxInflight
                /\ inflight' = AddFollowUp(inflight, uploadID, cmd, r.authID)
                /\ UNCHANGED <<lastResp, lastBody>>
        /\ UNCHANGED <<issued, lastCall, boundAt, finalized, authManager, now, storeVars, lockVars>>

\* handleResumableFollowUp from the executor call on: the call is pinned to the
\* credential the lookup returned; a finalize that succeeds drops the session.
FollowUpExecute(req, pick, failedFirst, err) ==
    LET opts == followUpOptions(req.authID)
        r    == ManagerExecute(opts, pick, failedFirst)
        e    == IF authManager THEN err ELSE ErrNoAuthManager
        done == isFinalize(req.cmd) /\ e = NoErr
    IN  /\ req \in inflight
        /\ lastCall.n < MaxCalls
        /\ inflight' = RemoveFollowUp(inflight, req)
        /\ lastCall' = IF authManager THEN Call("followUp", req.uploadID, opts, pick, r)
                       ELSE lastCall
        /\ sessions' = IF done THEN dropSession(sessions, req.uploadID) ELSE sessions
        /\ finalized' = IF done THEN finalized \cup {req.uploadID} ELSE finalized
        /\ lastResp' = IF e = NoErr
                       THEN Response("followUp", req.uploadID, 200, "", NoURL)
                       ELSE ProxyErrorResponse("followUp", req.uploadID, e)
        /\ lastBody' = IF e = NoErr THEN UpstreamPayload ELSE writeProxyError(e).body
        /\ UNCHANGED <<issued, boundAt, authManager, now, storeVars, lockVars>>

NextProxy ==
    \/ ProxyTick
    \/ \E c \in DirectRequests, pick \in Credentials, failedFirst \in BOOLEAN,
          err \in {NoErr} \cup ExecuteErrors, hasURL \in BOOLEAN, hasSelected \in BOOLEAN :
          ResumableStart(c, pick, failedFirst, err, hasURL, hasSelected)
    \/ \E uploadID \in RequestTokens, cmd \in Commands : FollowUpLookup(uploadID, cmd)
    \/ \E req \in inflight, pick \in Credentials, failedFirst \in BOOLEAN,
          err \in {NoErr} \cup ExecuteErrors :
          FollowUpExecute(req, pick, failedFirst, err)

\* The upstream proxy's resumable uploads under every interleaving of starts,
\* follow-ups, executor outcomes and clock readings.
SpecProxy == Init /\ [][NextProxy]_vars

multipartOptions_Unpinned(authID) == [ForceAuthID |-> "", NoRetry |-> FALSE]

\* The options of a simple upload: pinned to the picked credential, no retry.
multipartOptions(authID) == [ForceAuthID |-> authID, NoRetry |-> TRUE]

\* handleMultipartUpload: the credential is picked first and the call pinned to
\* it, with no retry.  pickErr is the outcome of PickAuth, err of the executor;
\* selected is the choice of the executor's own selector and failedFirst the
\* outcome of its first attempt.
MultipartUpload(pick, pickErr, err, selected, failedFirst) ==
    LET opts   == multipartOptions(pick)
        r      == ManagerExecute(opts, selected, failedFirst)
        called == authManager /\ pickErr = NoErr
        e      == IF ~authManager THEN ErrNoAuthManager
                  ELSE IF pickErr # NoErr THEN pickErr ELSE err
    IN  /\ lastCall.n < MaxCalls
        /\ pickErr # NoErr => err = NoErr
        /\ lastCall' = IF called THEN Call("multipart", "", opts, pick, r) ELSE lastCall
        /\ lastResp' = IF e = NoErr THEN Response("multipart", "", 200, "", NoURL)
                       ELSE ProxyErrorResponse("multipart", "", e)
        /\ lastBody' = IF e = NoErr THEN UpstreamPayload ELSE writeProxyError(e).body
        /\ UNCHANGED <<sessions, inflight, issued, boundAt, finalized, authManager, now,
                       storeVars, lockVars>>

\* resolveMetadataAction: a GET without a file id lists, a DELETE deletes, any
\* other request gets.
resolveMetadataAction(fileId, method) ==
    IF fileId = "" /\ method = "GET" THEN "files.list"
    ELSE IF method = "DELETE" THEN "files.delete"
    ELSE "files.get"

\* proxyFileMetadata: GetFile, ListFiles and DeleteFile of the proxy.
ProxyFileMetadata(method, fileId, pick, failedFirst, err) ==
    LET action == resolveMetadataAction(fileId, method)
        r      == ManagerExecute(startOptions, pick, failedFirst)
        e      == IF authManager THEN err ELSE ErrNoAuthManager
    IN  /\ lastCall.n < MaxCalls
        /\ lastCall' = IF authManager THEN Call(action, "", startOptions, pick, r) ELSE lastCall
        /\ lastResp' = IF e = NoErr THEN Response(action, "", 200, "", NoURL)
                       ELSE ProxyErrorResponse(action, "", e)
        /\ lastBody' = IF e = NoErr THEN UpstreamPayload ELSE writeProxyError(e).body
        /\ UNCHANGED <<sessions, inflight, issued, boundAt, finalized, authManager, now,
                       storeVars, lockVars>>

\* The proxy handler of a server with or without a credential pool.
InitProxyCalls == InitStore /\ InitLocks /\ \E manager \in BOOLEAN : InitHandler(manager)

NextProxyCalls ==
    \/ \E c \in DirectRequests, pick \in Credentials, failedFirst \in BOOLEAN,
          err \in {NoErr} \cup ExecuteErrors, hasURL \in BOOLEAN, hasSelected \in BOOLEAN :
          ResumableStart(c, pick, failedFirst, err, hasURL, hasSelected)
    \/ \E uploadID \in RequestTokens, cmd \in Commands : FollowUpLookup(uploadID, cmd)
    \/ \E req \in inflight, pick \in Credentials, failedFirst \in BOOLEAN,
          err \in {NoErr} \cup ExecuteErrors :
          FollowUpExecute(req, pick, failedFirst, err)
    \/ \E pick \in Credentials, pickErr \in {NoErr} \cup ExecuteErrors,
          err \in {NoErr} \cup ExecuteErrors, selected \in Credentials,
          failedFirst \in BOOLEAN :
          MultipartUpload(pick, pickErr, err, selected, failedFirst)
    \/ \E method \in {"GET", "DELETE"}, fileId \in {"", "abc-123"}, pick \in Credentials,
          failedFirst \in BOOLEAN, err \in {NoErr} \cup ExecuteErrors :
          ProxyFileMetadata(method, fileId, pick, failedFirst, err)

\* Every call of the upstream proxy within one clock reading, on a handler with
\* and on one without a credential pool.
SpecProxyCalls == InitProxyCalls /\ [][NextProxyCalls]_vars

\* ------------------------------------------- upstream proxy: its functions
ApplyWriteProxyError(err) ==
    /\ Idle
    /\ lastOp' = [op |-> "writeProxyError", err |-> err, out |-> writeProxyError(err)]
    /\ ReadOnly

ApplyBuildProxyUploadURL(c, uploadID) ==
    /\ Idle
    /\ lastOp' = [op |-> "buildProxyUploadURL", c |-> c, uploadID |-> uploadID,
                  out |-> buildProxyUploadURL(c, uploadID)]
    /\ ReadOnly

\* Header and query values are sequences of characters; << >> is the value
\* of a header or parameter the request does not carry.
UpperLetters == <<"A", "B", "C", "D", "E", "F", "G", "H", "I", "J", "K", "L", "M",
                  "N", "O", "P", "Q", "R", "S", "T", "U", "V", "W", "X", "Y", "Z">>
LowerLetters == <<"a", "b", "c", "d", "e", "f", "g", "h", "i", "j", "k", "l", "m",
                  "n", "o", "p", "q", "r", "s", "t", "u", "v", "w", "x", "y", "z">>

\* strings.ToLower on one character and on a string.
LowerOf(ch) ==
    IF \E i \in 1..Len(UpperLetters) : UpperLetters[i] = ch
    THEN LowerLetters[CHOOSE i \in 1..Len(UpperLetters) : UpperLetters[i] = ch]
    ELSE ch
ToLower(str) == [i \in 1..Len(str) |-> LowerOf(str[i])]

\* strings.EqualFold
EqualFold(a, b) == ToLower(a) = ToLower(b)

RECURSIVE TrimSpace(_)
\* strings.TrimSpace
TrimSpace(str) ==
    IF str = << >> THEN str
    ELSE IF Head(str) = " " THEN TrimSpace(Tail(str))
    ELSE IF str[Len(str)] = " " THEN TrimSpace(SubSeq(str, 1, Len(str) - 1))
    ELSE str

StrResumable == <<"r", "e", "s", "u", "m", "a", "b", "l", "e">>
StrMultipart == <<"m", "u", "l", "t", "i", "p", "a", "r", "t">>

\* Upload requests: X-Goog-Upload-Protocol, X-Goog-Upload-Command and the
\* upload_id query parameter, each absent, blank or set.
UploadProtocols ==
    {<< >>, StrResumable, <<"R", "e", "s", "u", "m", "a", "b", "l", "e">>,
     <<" ">> \o StrResumable, StrMultipart, <<"r", "a", "w">>}
UploadCommands == {<< >>, <<" ">>, <<"s", "t", "a", "r", "t">>, <<"u", "p", "l", "o", "a", "d">>}
UploadIDParams == {<< >>, <<" ">>, <<"a", "b", "c">>}
UploadRequests == [protocol : UploadProtocols, command : UploadCommands, uploadID : UploadIDParams]

shouldTreatAsResumableUpload(c) ==
    IF EqualFold(TrimSpace(c.protocol), StrResumable) THEN TRUE
    ELSE IF TrimSpace(c.command) # << >> THEN TRUE
    ELSE IF TrimSpace(c.uploadID) # << >> THEN TRUE
    ELSE FALSE

\* GeminiFileAPIHandler.UploadFile: the handler the request is given to, "" when
\* the request is answered 400 at once.
LocalUploadFile(c) ==
    CASE c.protocol = StrResumable -> "handleResumableUpload"
      [] c.protocol \in {StrMultipart, << >>} -> "handleMultipartUpload"
      [] OTHER -> ""

\* GeminiUpstreamFileAPIHandler.UploadFile
ProxyUploadFile(c) ==
    IF EqualFold(c.protocol, StrResumable) THEN "handleResumableUpload"
    ELSE "handleMultipartUpload"

UploadHandlers == {"local", "proxy"}

\* Names of headers and query parameters, as sequences of characters.
HdrAuthorization == <<"A", "u", "t", "h", "o", "r", "i", "z", "a", "t", "i", "o", "n">>
HdrAPIKey == <<"X", "-", "G", "o", "o", "g", "-", "A", "p", "i", "-", "K", "e", "y">>
HdrHost == <<"H", "o", "s", "t">>
HdrContentLength == <<"C", "o", "n", "t", "e", "n", "t", "-", "L", "e", "n", "g", "t", "h">>
HdrContentType == <<"C", "o", "n", "t", "e", "n", "t", "-", "T", "y", "p", "e">>
HdrAccept == <<"A", "c", "c", "e", "p", "t">>
HdrUploadCommand == <<"X", "-", "G", "o", "o", "g", "-", "U", "p", "l", "o", "a", "d", "-", "C", "o", "m", "m", "a", "n", "d">>
HdrCookie == <<"C", "o", "o", "k", "i", "e">>
UploadHeaderPrefix == <<"x", "-", "g", "o", "o", "g", "-", "u", "p", "l", "o", "a", "d", "-">>
ParamKey == <<"k", "e", "y">>
ParamKeyUpper == <<"K", "E", "Y">>
ParamAuthToken == <<"a", "u", "t", "h", "_", "t", "o", "k", "e", "n">>
ParamUploadID == <<"u", "p", "l", "o", "a", "d", "_", "i", "d">>

\* The headers and query parameters a client request can carry; each value is
\* the client's own.  A value is a sequence of strings, read as their
\* concatenation.
InboundHeaderNames ==
    {HdrAuthorization, HdrAPIKey, HdrHost, HdrContentLength,
     HdrContentType, HdrAccept, HdrUploadCommand, HdrCookie}
InboundParamNames == {ParamKey, ParamKeyUpper, ParamAuthToken, ParamUploadID}
ClientValue == <<"client">>
InboundRequests ==
    UNION {[headers : {[k \in hs |-> ClientValue]}, query : {[k \in qs |-> ClientValue]}] :
              hs \in SUBSET InboundHeaderNames, qs \in SUBSET InboundParamNames}

\* geminiCreds: the API key and the bearer token of the selected credential.
UpstreamCreds ==
    {[apiKey |-> "server-key", bearer |-> ""], [apiKey |-> "", bearer |-> "server-token"],
     [apiKey |-> "", bearer |-> ""]}

cloneQueryWithoutClientAuth_KeepAll(q) == q

\* cloneQueryWithoutClientAuth: every parameter but key and auth_token.
cloneQueryWithoutClientAuth(q) ==
    [k \in {n \in DOMAIN q : ~(EqualFold(n, ParamKey) \/ EqualFold(n, ParamAuthToken))} |-> q[k]]

cloneHeadersForGeminiFiles_DenyList(src) ==
    [k \in {n \in DOMAIN src : ~(EqualFold(n, HdrAuthorization) \/ EqualFold(n, HdrAPIKey))} |-> src[k]]

\* cloneHeadersForGeminiFiles: the upload-protocol headers, Content-Type and Accept.
cloneHeadersForGeminiFiles(src) ==
    [k \in {n \in DOMAIN src :
               /\ ~(EqualFold(n, HdrAuthorization) \/ EqualFold(n, HdrAPIKey))
               /\ ~(EqualFold(n, HdrContentLength) \/ EqualFold(n, HdrHost))
               /\ \/ HasPrefix(ToLower(n), UploadHeaderPrefix)
                  \/ EqualFold(n, HdrContentType)
                  \/ EqualFold(n, HdrAccept)} |-> src[k]]

fileOptionsFromRequest(c) ==
    [Headers |-> cloneHeadersForGeminiFiles(c.headers),
     Query |-> cloneQueryWithoutClientAuth(c.query)]

\* applyGeminiFilesHeaders: the executor copies the headers of the options,
\* credential headers, Host and Content-Length left out.
applyGeminiFilesHeaders(dst, src) ==
    [k \in {n \in DOMAIN src :
               /\ ~(EqualFold(n, HdrAuthorization) \/ EqualFold(n, HdrAPIKey))
               /\ ~(EqualFold(n, HdrHost) \/ EqualFold(n, HdrContentLength))} |-> src[k]] @@ dst

\* http.Header.Set; the name is one in canonical form, as are the names of
\* the inbound headers.
SetHeader(h, name, value) == (name :> value) @@ h

\* addQuery: the parameters of the options are added to the endpoint.
addQuery(endpoint, q) == [endpoint EXCEPT !.query = q @@ endpoint.query]

\* executeFiles: the request sent upstream for the options and the credential.
executeFiles(cred, opts) ==
    LET copied == applyGeminiFilesHeaders([k \in {} |-> << >>], opts.Headers)
    IN  [url |-> addQuery(URL("https", "generativelanguage.googleapis.com", UploadPath, NoQuery),
                          opts.Query),
         headers |-> IF cred.apiKey # "" THEN SetHeader(copied, HdrAPIKey, <<cred.apiKey>>)
                     ELSE IF cred.bearer # "" THEN SetHeader(copied, HdrAuthorization, <<"Bearer ", cred.bearer>>)
                     ELSE copied]

ApplyForward(c, cred) ==
    /\ Idle
    /\ lastOp' = [op |-> "forward", c |-> c, cred |-> cred,
                  out |-> executeFiles(cred, fileOptionsFromRequest(c))]
    /\ ReadOnly

ApplyUploadFile(handler, c) ==
    /\ Idle
    /\ lastOp' = [op |-> "UploadFile", handler |-> handler, c |-> c,
                  resumable |-> shouldTreatAsResumableUpload(c),
                  route |-> IF handler = "local" THEN LocalUploadFile(c) ELSE ProxyUploadFile(c)]
    /\ ReadOnly

NextProxyFunctions ==
    \/ Return
    \/ \E err \in ProxyErrors : ApplyWriteProxyError(err)
    \/ \E c \in ProxyRequests \cup {NoRequest}, uploadID \in RequestTokens \ {""} :
          ApplyBuildProxyUploadURL(c, uploadID)
    \/ \E handler \in UploadHandlers, c \in UploadRequests : ApplyUploadFile(handler, c)
    \/ \E c \in InboundRequests, cred \in UpstreamCreds : ApplyForward(c, cred)

\* The functions of the handlers applied to every error and request.
SpecProxyFunctions == Init /\ [][NextProxyFunctions]_vars

\* ------------------------------------------------------ FileStore claims
\* An id of exactly 32 hexadecimal characters.
Hex32(fileID) ==
    /\ Len(fileID) = 32
    /\ \A i \in 1..Len(fileID) : fileID[i] \in DigitChars \cup LowerHexChars \cup UpperHexChars

\* The sidecar of fileID holds a record owned by another key than apiKey.
OwnedByAnother(fileID, apiKey) ==
    /\ fileID \in DOMAIN metadataDir
    /\ metadataDir[fileID].parsable
    /\ metadataDir[fileID].md.APIKey # hashAPIKey(apiKey)

\* C1: GetFileForAPIKey and DeleteFileForAPIKey called with a key whose hash is
\* not the record's owner hash (the empty key against a non-anonymous record
\* included) return NotFound, and the content files, the sidecars and the byte
\* counter are the same after the call as before it.
C1_WrongOwnerNotFound ==
    [][ ( /\ Idle
          /\ lastOp'.op \in {"GetFileForAPIKey", "DeleteFileForAPIKey"}
          /\ OwnedByAnother(lastOp'.id, lastOp'.key) )
        => ( /\ lastOp'.err = ErrFileNotFound
             /\ UNCHANGED <<filesDir, metadataDir, currentTotalSize>> ) ]_vars

\* The anonymous caller was refused the deletion of a live record of a keyed
\* owner, whose content file and sidecar are still there.
C1_Witness ==
    /\ lastOp.op = "DeleteFileForAPIKey"
    /\ lastOp.key = ""
    /\ OwnedByAnother(lastOp.id, lastOp.key)
    /\ metadataDir[lastOp.id].md.APIKey = hashAPIKey("key-a")
    /\ now <= metadataDir[lastOp.id].md.ExpiresAt
    /\ lastOp.id \in DOMAIN filesDir
    /\ lastOp.err = ErrFileNotFound

\* C2: whenever no write operation is in progress, the byte counter equals the
\* sum of the sizes of the content files on disk.  (Every action is a whole
\* call, so no write is in progress in any state.)
C2_CounterEqualsDisk == currentTotalSize = DiskBytes

\* The sidecar of fileID holds a record whose ExpiresAt has passed, and the
\* content file is still on disk.
ExpiredOnDisk(fileID) ==
    /\ fileID \in DOMAIN metadataDir
    /\ metadataDir[fileID].parsable
    /\ now > metadataDir[fileID].md.ExpiresAt
    /\ fileID \in DOMAIN filesDir

\* C3: a record whose expiresAt is in the past and whose files are still on
\* disk is not in the result of ListFiles, and GetFile on its id returns
\* NotFound.
C3_ExpiredIsGone ==
    /\ lastOp.op = "ListFiles" =>
          \A m \in lastOp.list : ~ExpiredOnDisk(m.FileID)
    /\ (lastOp.op = "GetFile" /\ ExpiredOnDisk(lastOp.id)) =>
          lastOp.err = ErrFileNotFound

\* The calls of the store that take a file id.
IdOps == {"GetFile", "GetFileForAPIKey", "GetFileContent", "ReadFileBytesForAPIKey",
          "DeleteFile", "DeleteFileForAPIKey"}

\* C4: every call that takes a file id, given an id that is not exactly 32
\* hexadecimal characters, returns NotFound and accesses no path built from
\* that id.
C4_InvalidIdNotFound ==
    (lastOp.op \in IdOps /\ ~Hex32(lastOp.id)) =>
        (lastOp.err = ErrFileNotFound /\ lastOp.touched = {})

\* A delete was asked for the id ".." and for an id one character short.
C4_Witness ==
    /\ lastOp.op \in {"DeleteFile", "GetFileContent"}
    /\ lastOp.id \in {<<".", ".">>, SubSeq(GenerateFileID(0), 1, 31)}
    /\ DOMAIN filesDir # {}
    /\ lastOp.err = ErrFileNotFound

\* The content of a SaveFile call would take the byte counter over the quota.
OverQuota(total, content) ==
    maxTotalSizeMB > 0 /\ total + SizeOf(content) > maxTotalSizeMB * BytesPerMB

\* C5: with a nonzero quota, a SaveFile whose content would take the running
\* total over the quota fails with ErrFileTooLarge.  (The step injects no I/O
\* fault, so the quota is the only reason to fail.)
C5_QuotaIsTooLarge ==
    [][ ( /\ Idle
          /\ lastOp'.op = "SaveFile"
          /\ faults' = faults
          /\ OverQuota(currentTotalSize, lastOp'.data) )
        => lastOp'.err = ErrFileTooLarge ]_vars

\* C6: a SaveFile whose content would take the running total over the nonzero
\* quota fails, and leaves the byte counter, the sidecars and the content files
\* as they were: no sidecar and no content file of its own remain.
C6_QuotaRejectionLeavesNothing ==
    [][ ( /\ Idle
          /\ lastOp'.op = "SaveFile"
          /\ OverQuota(currentTotalSize, lastOp'.data) )
        => ( /\ lastOp'.err # ErrNil
             /\ UNCHANGED <<filesDir, metadataDir, currentTotalSize>> ) ]_vars

\* A save was rejected for the quota; nothing is stored under its id.
C6_Witness ==
    /\ lastOp.op = "SaveFile"
    /\ lastOp.err = "storage quota exceeded"
    /\ OverQuota(currentTotalSize, lastOp.data)
    /\ currentTotalSize = BytesPerMB
    /\ lastOp.id \notin DOMAIN filesDir
    /\ lastOp.id \notin DOMAIN metadataDir

\* C7: after a successful SaveFile under key k, before the record expires and
\* with no delete or sweep of its id since, GetFileForAPIKey with k returns a
\* record whose SizeBytes and SHA256Hash are those of the bytes saved, and
\* ReadFileBytesForAPIKey with k returns exactly those bytes.
C7_RoundTrip ==
    \A s \in saved :
        ( /\ lastOp.op \in {"GetFileForAPIKey", "ReadFileBytesForAPIKey"}
          /\ lastOp.id = s.id
          /\ lastOp.key = s.key
          /\ now <= s.expiresAt )
        => ( /\ lastOp.err = ErrNil
             /\ lastOp.md.SizeBytes = SizeOf(s.content)
             /\ lastOp.md.SHA256Hash = Digest(s.content)
             /\ lastOp.op = "ReadFileBytesForAPIKey" => lastOp.data = s.content )

\* C8: ListFilesForAPIKey(k) returns exactly the records that are not expired
\* and whose owner hash equals the hash of k.
C8_ListIsOwnersLiveRecords ==
    lastOp.op = "ListFilesForAPIKey" =>
        lastOp.list = {metadataDir[id].md : id \in {i \in DOMAIN metadataDir :
                           /\ metadataDir[i].parsable
                           /\ metadataDir[i].md.APIKey = hashAPIKey(lastOp.key)
                           /\ now <= metadataDir[i].md.ExpiresAt}}

\* A keyed caller listed its record while a live anonymous record, a live
\* record of another key or an expired record of its own was on disk too.
C8_Witness ==
    /\ lastOp.op = "ListFilesForAPIKey"
    /\ lastOp.key = "key-a"
    /\ lastOp.list # {}
    /\ \E i \in DOMAIN metadataDir :
          /\ metadataDir[i].parsable
          /\ metadataDir[i].md.APIKey = ""
          /\ now <= metadataDir[i].md.ExpiresAt
    /\ \E i \in DOMAIN metadataDir :
          /\ metadataDir[i].parsable
          /\ metadataDir[i].md.APIKey = hashAPIKey("key-a")
          /\ now > metadataDir[i].md.ExpiresAt

\* ------------------------------------------------------------ proxy claims
\* C9: every resumable follow-up that carries a live session token is executed
\* with the credential bound to the token at start: that credential is the
\* forced credential of the call, no-retry is set, and the call runs with it
\* whatever the pool's selector would have picked.
C9_FollowUpUsesBoundCredential ==
    lastCall.kind = "followUp" =>
        /\ lastCall.uploadID \in DOMAIN boundAt
        /\ lastCall.ForceAuthID = boundAt[lastCall.uploadID]
        /\ lastCall.NoRetry
        /\ lastCall.authID = boundAt[lastCall.uploadID]
        /\ lastCall.attempts = 1

\* A follow-up ran with the bound credential c1 while the selector would have
\* picked c2.
C9_Witness ==
    /\ lastCall.kind = "followUp"
    /\ lastCall.uploadID \in DOMAIN boundAt
    /\ boundAt[lastCall.uploadID] = "c1"
    /\ lastCall.authID = "c1"
    /\ lastCall.pick = "c2"

\* C10: once a finalize follow-up has succeeded, the session entry of its token
\* is gone from the session table, and a follow-up that arrives later with the
\* same token is answered 400 INVALID_ARGUMENT without a call to the executor.
C10_FinalizeConsumesSession ==
    [][ /\ \A u \in finalized' : u \notin DOMAIN sessions'
        /\ \A u \in finalized, cmd \in Commands :
              FollowUpLookup(u, cmd) =>
                 /\ lastResp' = Response("followUp", u, 400, "INVALID_ARGUMENT", NoURL)
                 /\ lastCall' = lastCall
                 /\ inflight' = inflight ]_vars

\* A follow-up with a finalized token was answered 400 before the token's two
\* hours had passed.
C10_Witness ==
    /\ lastResp.kind = "followUp"
    /\ lastResp.status = 400
    /\ lastResp.uploadID \in finalized
    /\ lastResp.uploadID \in DOMAIN boundAt
    /\ now = 0

\* A session a follow-up can continue: bound, with a credential, not past its TTL.
LiveSession(uploadID) ==
    /\ uploadID # ""
    /\ uploadID \in DOMAIN sessions
    /\ sessions[uploadID].authID # ""
    /\ now <= sessions[uploadID].expiresAt

\* C11: a follow-up whose upload_id is empty, unknown or past its TTL is
\* answered 400 INVALID_ARGUMENT; the credential executor is not invoked and
\* the request is not passed on to run under another credential.
C11_DeadSessionRejected ==
    [][\A uploadID \in RequestTokens, cmd \in Commands :
         (FollowUpLookup(uploadID, cmd) /\ ~LiveSession(uploadID)) =>
             /\ lastResp' = Response("followUp", uploadID, 400, "INVALID_ARGUMENT", NoURL)
             /\ lastCall' = lastCall
             /\ inflight' = inflight]_vars

\* A follow-up was answered 400 for an upload id that was bound and never
\* finalized: its session ran past the TTL.
C11_Witness ==
    /\ lastResp.kind = "followUp"
    /\ lastResp.status = 400
    /\ lastResp.uploadID \in DOMAIN boundAt
    /\ lastResp.uploadID \notin finalized
    /\ lastResp.uploadID \notin DOMAIN sessions

\* C12: after a successful resumable start the upstream upload token is bound
\* to the credential that produced the start response, and the continuation
\* URL given to the client points at the proxy's own upload endpoint and
\* carries a session token different from the upstream token.
C12_StartHidesUpstreamToken ==
    (lastResp.kind = "start" /\ lastResp.status = 200 /\ lastResp.uploadID # "") =>
        /\ lastResp.uploadID \in DOMAIN boundAt
        /\ boundAt[lastResp.uploadID] = lastCall.authID
        /\ lastResp.uploadURL.host = ProxyHost
        /\ lastResp.uploadURL.path = UploadPath
        /\ extractUploadID(lastResp.uploadURL) # ""
        /\ extractUploadID(lastResp.uploadURL) # lastResp.uploadID

\* ------------------------------------------------- request rewriter claims
\* The positions of the parts of a payload, and the part at a position.
PartPositions(payload) ==
    IF "contents" \notin DOMAIN payload THEN {}
    ELSE LET contents == payload["contents"]
         IN  UNION {{<<ci, pi>> : pi \in 1..Len(contents[ci]["parts"])} : ci \in 1..Len(contents)}

PartAt(payload, pos) == payload["contents"][pos[1]]["parts"][pos[2]]

\* The file reference of a part, in whichever spelling it is written, with the
\* MIME type declared next to it; no URI when the part refers to no file.
PartReference(part) ==
    IF "file_data" \in DOMAIN part /\ part["file_data"].file_uri # << >>
    THEN [uri |-> part["file_data"].file_uri, mime |-> part["file_data"].mime_type]
    ELSE IF "fileData" \in DOMAIN part
    THEN [uri |-> part["fileData"].fileUri, mime |-> part["fileData"].mimeType]
    ELSE [uri |-> << >>, mime |-> ""]

\* A handle of the local store: "files/" followed by 32 hexadecimal characters.
IsLocalHandle(uri) == HasPrefix(uri, FilesPrefix) /\ Hex32(TrimPrefix(uri, FilesPrefix))

HandleID(uri) == TrimPrefix(uri, FilesPrefix)

\* The store holds a live record of fileID owned by apiKey, with its content.
LiveOwned(fileID, apiKey) ==
    /\ fileID \in DOMAIN metadataDir
    /\ fileID \in DOMAIN filesDir
    /\ metadataDir[fileID].parsable
    /\ now <= metadataDir[fileID].md.ExpiresAt
    /\ metadataDir[fileID].md.APIKey = hashAPIKey(apiKey)

Inlinable(fileID, apiKey) ==
    LiveOwned(fileID, apiKey) /\ metadataDir[fileID].md.SizeBytes <= maxInlineFileBytes

\* The positions of the parts of the rewritten payload that hold a local handle.
LocalHandlePositions ==
    {pos \in PartPositions(lastOp.payload) :
        IsLocalHandle(PartReference(PartAt(lastOp.payload, pos)).uri)}

\* C13: when every part of the payload either refers to no file or holds, in
\* either spelling, a handle of a file the caller owns, the rewrite succeeds;
\* and in a successful rewrite every part that held a local handle has an
\* inline_data member whose data decodes from base64 to the stored bytes and
\* whose MIME type is the declared one, or the stored one when none was
\* declared, and has neither a file_data nor a fileData member.
C13_OwnedHandleInlined ==
    lastOp.op = "rewriteLocalFileParts" =>
        /\ ( \A pos \in PartPositions(lastOp.payload) :
                LET ref == PartReference(PartAt(lastOp.payload, pos))
                IN  \/ ref.uri = << >>
                    \/ IsLocalHandle(ref.uri) /\ Inlinable(HandleID(ref.uri), lastOp.key) )
           => lastOp.err = ErrNil
        /\ lastOp.err = ErrNil =>
              \A pos \in LocalHandlePositions :
                 LET ref    == PartReference(PartAt(lastOp.payload, pos))
                     fileID == HandleID(ref.uri)
                     out    == PartAt(lastOp.out, pos)
                 IN  /\ "inline_data" \in DOMAIN out
                     /\ DecodeString(out["inline_data"].data) = filesDir[fileID]
                     /\ out["inline_data"].mime_type =
                           IF ref.mime # "" THEN ref.mime ELSE metadataDir[fileID].md.MimeType
                     /\ "file_data" \notin DOMAIN out
                     /\ "fileData" \notin DOMAIN out

\* A rewrite inlined a one-block file referred to in the camelCase spelling
\* with no declared MIME type, next to a reference with a declared one.
C13_Witness ==
    /\ lastOp.op = "rewriteLocalFileParts"
    /\ lastOp.err = ErrNil
    /\ Cardinality(LocalHandlePositions) = MaxParts
    /\ \E pos \in LocalHandlePositions :
          /\ "fileData" \in DOMAIN PartAt(lastOp.payload, pos)
          /\ "file_data" \notin DOMAIN PartAt(lastOp.payload, pos)
          /\ PartAt(lastOp.out, pos)["inline_data"].mime_type = "text/plain"
          /\ Len(PartAt(lastOp.out, pos)["inline_data"].data) = 1
    /\ \E pos \in LocalHandlePositions :
          PartAt(lastOp.out, pos)["inline_data"].mime_type = "audio/mpeg"

C15_NonLocalPassesThrough ==
    ( /\ lastOp.op = "rewriteLocalFileParts"
      /\ LocalHandlePositions = {} )
    => ( lastOp.err = ErrNil /\ lastOp.out = lastOp.payload )

\* C16: a rewrite of a payload in which some local handle cannot be fetched
\* (no live record, another owner, a file over the inline ceiling) fails and
\* hands back no payload, whatever the other references are.
C16_NoPartialRewrite ==
    ( /\ lastOp.op = "rewriteLocalFileParts"
      /\ \E pos \in LocalHandlePositions :
            ~Inlinable(HandleID(PartReference(PartAt(lastOp.payload, pos)).uri), lastOp.key) )
    => ( lastOp.err \in {ErrFileNotFound, ErrFileTooLarge} /\ lastOp.out = NilPayload )

\* The first reference of the payload could be inlined and the second could
\* not: the rewrite handed back no payload.
C16_Witness ==
    /\ lastOp.op = "rewriteLocalFileParts"
    /\ lastOp.out = NilPayload
    /\ <<1, 1>> \in LocalHandlePositions
    /\ <<1, 2>> \in LocalHandlePositions
    /\ Inlinable(HandleID(PartReference(PartAt(lastOp.payload, <<1, 1>>)).uri), lastOp.key)
    /\ ~Inlinable(HandleID(PartReference(PartAt(lastOp.payload, <<1, 2>>)).uri), lastOp.key)

\* ------------------------------------------------- upstream proxy claims
\* A JSON object with the members of the error envelope.
IsErrorEnvelope(body) ==
    /\ "error" \in DOMAIN body
    /\ DOMAIN body["error"] = {"code", "message", "status"}

\* C17: every error body the proxy writes is the envelope {error: {code,
\* message, status}}: for an upstream JSON body an empty error.message is
\* filled from the top-level message member and a status written as an HTTP
\* phrase becomes the symbolic name of the response status; a body that is not
\* JSON is wrapped in the same envelope.
C17_ErrorBodyNormalized ==
    lastOp.op = "writeProxyError" =>
        LET given  == lastOp.err.msg
            status == lastOp.out.status
            body   == lastOp.out.body
        IN  /\ IsErrorEnvelope(body)
            /\ ( /\ given.json
                 /\ given.value["error"].message = ""
                 /\ "message" \in DOMAIN given.value )
               => body["error"].message = given.value.message
            /\ (given.json /\ given.value["error"].status = StatusText(status))
               => body["error"].status = googleStatusForHTTP(status)
            /\ (~given.json /\ given.text # "") => body["error"].message = given.text

\* C19: the continuation URL built for a caller that presented an API key
\* carries the upload_id of the session and the caller's key as its key
\* parameter.
C19_UploadURLCarriesKey ==
    (lastOp.op = "buildProxyUploadURL" /\ lastOp.c.key # "") =>
        /\ extractUploadID(lastOp.out) = lastOp.uploadID
        /\ "key" \in DOMAIN lastOp.out.query
        /\ lastOp.out.query["key"] = lastOp.c.key

\* The calls whose first step is the credential pool.
PoolCalls == {"start", "multipart", "files.get", "files.list", "files.delete"}

\* C18: on a handler without a credential pool no call reaches the executor; a
\* multipart upload, a resumable start, a get, a list and a delete are answered
\* 503 with a JSON body whose error member is an object, and a resumable
\* follow-up is answered 400 INVALID_ARGUMENT, since no session exists.
C18_NoPoolUnavailable ==
    ~authManager =>
        /\ lastCall.n = 0
        /\ inflight = {}
        /\ lastResp.kind \in PoolCalls =>
              /\ lastResp.status = 503
              /\ "error" \in DOMAIN lastBody
              /\ DOMAIN lastBody["error"] = {"code", "message", "status"}
              /\ lastBody["error"].status = "UNAVAILABLE"
        /\ lastResp.kind = "followUp" =>
              /\ lastResp.status = 400
              /\ lastResp.code = "INVALID_ARGUMENT"

\* A delete was answered 503 by a handler without a credential pool.
C18_Witness ==
    /\ ~authManager
    /\ lastResp.kind = "files.delete"
    /\ lastResp.status = 503
    /\ lastBody["error"].code = 503

\* C18 as stated: on a handler without a credential pool every upload, get,
\* list and delete call is answered 503 with a JSON body whose error member is
\* an object, and no call reaches the executor.
C18_EveryCallUnavailable ==
    (~authManager /\ lastResp.kind # "none") =>
        /\ lastCall.n = 0
        /\ lastResp.status = 503
        /\ "error" \in DOMAIN lastBody
        /\ DOMAIN lastBody["error"] = {"code", "message", "status"}

\* ---------------------------------------------------- local handler claims
\* C20: a resumable start of the local handler with a valid JSON body, from a
\* caller that presented an API key, is answered 200 with the upload status "active", a chunk granularity and a
\* continuation URL that carries a newly generated upload_id and the caller's
\* API key as its key parameter; the content files, the sidecars and the byte
\* counter are as they were.
C20_LocalStartURLCarriesKey ==
    [][ ( /\ Idle
          /\ lastOp'.op = "handleResumableStart"
          /\ lastOp'.valid
          /\ lastOp'.key # "" )
        => ( /\ lastOp'.resp.status = 200
             /\ lastOp'.resp.headers.uploadStatus = "active"
             /\ lastOp'.resp.headers.chunkGranularity # ""
             /\ Hex32(extractUploadID(lastOp'.resp.headers.uploadURL))
             /\ "key" \in DOMAIN lastOp'.resp.headers.uploadURL.query
             /\ lastOp'.resp.headers.uploadURL.query["key"] = lastOp'.key
             /\ UNCHANGED <<filesDir, metadataDir, currentTotalSize>> ) ]_vars

\* A header or parameter value that is not blank.
NonBlank(str) == \E i \in 1..Len(str) : str[i] # " "

\* C21: an upload request is handled as a resumable upload exactly when its
\* X-Goog-Upload-Protocol header is "resumable" in any letter case, or its
\* X-Goog-Upload-Command header is not blank, or its upload_id parameter is
\* not blank.
C21_ResumableRouting ==
    lastOp.op = "UploadFile" =>
        ( lastOp.route = "handleResumableUpload"
          <=> ( \/ ToLower(lastOp.c.protocol) = StrResumable
                \/ NonBlank(lastOp.c.command)
                \/ NonBlank(lastOp.c.uploadID) ) )


\* ------------------------------------------------- FileStore: concurrency
\* The goroutine is inside a write operation: past its Lock, not yet returned.
InsideWrite(g) == calls[g].op \in WriteOps /\ calls[g].pc # "Lock"

\* The write operation of the goroutine has changed a directory or the counter
\* and has a change still to make.
MidWrite(g) == calls[g].pc \in {"count", "saveMetadata", "RemoveFile", "RemoveMetadata"}

\* The read operation of the goroutine is about to read the directories.
Observing(g) == calls[g].op \in ReadOps /\ calls[g].pc = "read"

ReadsOverlap ==
    \E g \in Handlers : \E h \in Handlers \ {g} : Observing(g) /\ Observing(h)


\* C23: every SaveFile, GetFile, ListFiles and DeleteFile call returns some
\* time after the context of its caller is cancelled, whatever the other
\* callers are doing.
C23_CancelledCallReturns ==
    \A g \in Handlers : (calls[g].cancelled ~> calls[g] = NoCall)


\* The sidecar of fileID loads and its ExpiresAt has passed.
ExpiredRecord(fileID) ==
    /\ fileID \in DOMAIN metadataDir
    /\ metadataDir[fileID].parsable
    /\ now > metadataDir[fileID].md.ExpiresAt

\* The content files a step takes away.
DeletedFiles == DOMAIN filesDir \ DOMAIN filesDir'

\* C24: one run of the sweep deletes the content file and the sidecar of every
\* record whose ExpiresAt has passed (when no removal meets an I/O failure),
\* takes the size of each content file it deleted off the byte counter, and
\* leaves every other sidecar (the unparsable ones included) and its content
\* file as they were.
C24_SweepEffect ==
    [][ (Idle /\ lastOp'.op = "cleanupExpiredFiles")
        => ( /\ faults' = faults =>
                   \A id \in DOMAIN metadataDir :
                       ExpiredRecord(id) =>
                           (id \notin DOMAIN filesDir' /\ id \notin DOMAIN metadataDir')
             /\ currentTotalSize' = currentTotalSize - SumSizes(filesDir, DeletedFiles)
             /\ \A id \in DOMAIN metadataDir :
                   ~ExpiredRecord(id) =>
                       /\ id \in DOMAIN metadataDir'
                       /\ metadataDir'[id] = metadataDir[id]
                       /\ id \in DOMAIN filesDir =>
                             (id \in DOMAIN filesDir' /\ filesDir'[id] = filesDir[id]) ) ]_vars


\* C25: DeleteFile on a valid id that meets no I/O failure succeeds and leaves
\* neither the content file nor the sidecar of the id, whether or not they
\* were there; on an id that has neither (as after a delete) it succeeds and
\* changes no directory and not the byte counter.
C25_DeleteIdempotent ==
    [][ (Idle /\ lastOp'.op = "DeleteFile" /\ Hex32(lastOp'.id))
        => ( /\ faults' = faults =>
                   /\ lastOp'.err = ErrNil
                   /\ lastOp'.id \notin DOMAIN filesDir'
                   /\ lastOp'.id \notin DOMAIN metadataDir'
             /\ (lastOp'.id \notin DOMAIN filesDir /\ lastOp'.id \notin DOMAIN metadataDir) =>
                   /\ lastOp'.err = ErrNil
                   /\ UNCHANGED <<filesDir, metadataDir, currentTotalSize>> ) ]_vars

\* At the first clock reading a DeleteFile succeeded on the id of a later
\* reading, which has neither file, and the record saved before is untouched.
C25_Witness ==
    /\ lastOp.op = "DeleteFile"
    /\ lastOp.id = GenerateFileID(1)
    /\ lastOp.err = ErrNil
    /\ now = 0
    /\ DOMAIN filesDir = {GenerateFileID(0)}
    /\ DOMAIN metadataDir = {GenerateFileID(0)}
    /\ currentTotalSize = DiskBytes

\* C26: the id of every successful SaveFile is the id of no record the store
\* holds, so the save replaces no content file and no sidecar; saves that
\* follow each other within one clock reading included.
C26_FreshID ==
    [][ (Idle /\ lastOp'.op = "SaveFile" /\ lastOp'.err = ErrNil)
        => ( /\ lastOp'.id \notin DOMAIN filesDir
             /\ lastOp'.id \notin DOMAIN metadataDir ) ]_vars


\* The record of fileID is live, owned by apiKey, and its content file is there.
Readable(fileID, apiKey) ==
    /\ fileID \in DOMAIN metadataDir
    /\ metadataDir[fileID].parsable
    /\ metadataDir[fileID].md.APIKey = hashAPIKey(apiKey)
    /\ now <= metadataDir[fileID].md.ExpiresAt
    /\ fileID \in DOMAIN filesDir

\* C27: ReadFileBytesForAPIKey with a positive ceiling, on a live record of the
\* caller, fails with ErrFileTooLarge when the declared size or the number of
\* bytes of the content file is over the ceiling; otherwise it returns the
\* whole content.  No call returns a proper prefix of the content.
C27_NoTruncation ==
    (lastOp.op = "ReadFileBytesForAPIKey" /\ Readable(lastOp.id, lastOp.key)) =>
        \A maxBytes \in lastOp.list :
            /\ lastOp.err = ErrNil => lastOp.data = filesDir[lastOp.id]
            /\ maxBytes > 0 =>
                  IF \/ metadataDir[lastOp.id].md.SizeBytes > maxBytes
                     \/ SizeOf(filesDir[lastOp.id]) > maxBytes
                  THEN lastOp.err = ErrFileTooLarge
                  ELSE lastOp.err = ErrNil

\* A read with a ceiling of one block was refused on a content file of two
\* blocks whose sidecar declares one.
C27_Witness ==
    /\ lastOp.op = "ReadFileBytesForAPIKey"
    /\ lastOp.list = {BytesPerMB}
    /\ Readable(lastOp.id, lastOp.key)
    /\ metadataDir[lastOp.id].md.SizeBytes = BytesPerMB
    /\ SizeOf(filesDir[lastOp.id]) = 2 * BytesPerMB
    /\ lastOp.err = ErrFileTooLarge


\* The header is one of those the proxy forwards.
ForwardedHeader(name) ==
    \/ HasPrefix(ToLower(name), UploadHeaderPrefix)
    \/ ToLower(name) \in {ToLower(HdrContentType), ToLower(HdrAccept)}

C29_SimpleUploadPinnedOnce ==
    lastCall.kind = "multipart" =>
        /\ lastCall.pick \in Credentials
        /\ lastCall.ForceAuthID = lastCall.pick
        /\ lastCall.authID = lastCall.pick
        /\ lastCall.NoRetry
        /\ lastCall.attempts = 1

\* A simple upload went upstream once with credential c2 and was answered
\* with the error of the upstream.
C29_Witness ==
    /\ lastCall.kind = "multipart"
    /\ lastCall.authID = "c2"
    /\ lastCall.attempts = 1
    /\ lastResp.kind = "multipart"
    /\ lastResp.status >= 400

\* The entry of the session table is not past its expiry.
Unexpired(uploadID) ==
    uploadID \in DOMAIN sessions /\ now <= sessions[uploadID].expiresAt

\* C30: an entry expires 2 hours after the start that bound it and is never
\* changed; a lookup succeeds, with the bound credential, exactly when the
\* token has an entry that is not past its expiry; a lookup of an entry past
\* its expiry is answered 400 and removes the entry; an entry that is not
\* past its expiry leaves the table only by a finalize that succeeded.
C30_LazyExpiry ==
    [][/\ \A id \in DOMAIN sessions' :
             IF id \in DOMAIN sessions THEN sessions'[id] = sessions[id]
             ELSE sessions'[id] = [authID |-> boundAt'[id], expiresAt |-> now + SessionTTLHours]
       /\ \A uploadID \in RequestTokens, cmd \in Commands :
             FollowUpLookup(uploadID, cmd) =>
                 IF Unexpired(uploadID)
                 THEN /\ inflight' = AddFollowUp(inflight, uploadID, cmd, boundAt[uploadID])
                      /\ inflight' # inflight
                      /\ sessions' = sessions
                      /\ lastResp' = lastResp
                 ELSE /\ lastResp' = Response("followUp", uploadID, 400, "INVALID_ARGUMENT", NoURL)
                      /\ inflight' = inflight
                      /\ uploadID \notin DOMAIN sessions'
       /\ \A id \in DOMAIN sessions \ DOMAIN sessions' :
             Unexpired(id) => id \in finalized' \ finalized]_vars

\* A follow-up was answered 400 for a token whose entry had expired and is
\* gone, while a follow-up of another token, bound later and not past its
\* expiry, got the credential of its entry.
C30_Witness ==
    /\ lastResp.kind = "followUp"
    /\ lastResp.status = 400
    /\ lastResp.uploadID \in DOMAIN boundAt \ finalized
    /\ lastResp.uploadID \notin DOMAIN sessions
    /\ \E req \in inflight :
          /\ Unexpired(req.uploadID)
          /\ req.authID = sessions[req.uploadID].authID

\* C31: the status of the response to a failure of the proxy is the status
\* code of the error when it carries one; without one it is 503 for the
\* categories executor_not_found and auth_not_found, 400 for
\* provider_not_found, and 500 for every other error.
C31_ProxyErrorStatus ==
    lastOp.op = "writeProxyError" =>
        LET err == lastOp.err
        IN  /\ err.status > 0 => lastOp.out.status = err.status
            /\ err.status <= 0 =>
                  /\ err.code \in {"executor_not_found", "auth_not_found"}
                        => lastOp.out.status = 503
                  /\ err.code = "provider_not_found" => lastOp.out.status = 400
                  /\ err.code \notin {"executor_not_found", "auth_not_found",
                                      "provider_not_found"} => lastOp.out.status = 500

\* An error of category provider_not_found that carries no status code was
\* answered 400.
C31_Witness ==
    /\ lastOp.op = "writeProxyError"
    /\ lastOp.err.status = 0
    /\ lastOp.err.code = "provider_not_found"
    /\ lastOp.out.status = 400

\* A finalize of the local handler with an upload_id has returned.
FinalizeReturned ==
    lastOp.op = "handleResumableFinalize" /\ lastOp.id # << >>

\* The id SaveFile gives the file of the call that is returning.
FinalizeFileID == GenerateFileID(now)

\* C32: a local finalize with a non-empty upload_id calls SaveFile exactly once,
\* with the body of the request and the key of the caller; when the save
\* succeeds the answer is 200 with upload status "final" and the resource of
\* the saved file, whose record is in the store; when it fails the answer is
\* 500 with upload status "failed" and an INTERNAL error envelope, and the
\* directories of the store are as they were before the call.
C32_FinalizeSavesOnce ==
    FinalizeReturned =>
        LET resp == lastOp.resp
            key  == StringOf(extractAPIKey(lastOp.c))
        IN  /\ resp.saves = 1
            /\ resp.key = key
            /\ \/ /\ resp.status = 200
                  /\ resp.uploadStatus = "final"
                  /\ FinalizeFileID \in DOMAIN filesDir \cap DOMAIN metadataDir
                  /\ filesDir[FinalizeFileID] = lastOp.content
                  /\ metadataDir[FinalizeFileID].parsable
                  /\ metadataDir[FinalizeFileID].md.APIKey = hashAPIKey(key)
                  /\ resp.body = [file |-> FileResource(metadataDir[FinalizeFileID].md)]
               \/ /\ resp.status = 500
                  /\ resp.uploadStatus = "failed"
                  /\ resp.body = LocalError("failed to save file", "INTERNAL")
                  /\ filesDir = lastOp.before.filesDir
                  /\ metadataDir = lastOp.before.metadataDir

\* The key the request itself carries: the bearer token, else the
\* X-Goog-Api-Key header, else the key parameter, else none.
RequestKey(c) ==
    StringOf(IF HasPrefix(c.authorization, BearerPrefix)
             THEN SubSeq(c.authorization, Len(BearerPrefix) + 1, Len(c.authorization))
             ELSE IF c.googKey # << >> THEN c.googKey
             ELSE c.queryKey)

\* A local handler has returned from a call in which it asked the store.
AskedStore ==
    /\ lastOp.op \in {"handleResumableFinalize", "GetFile", "ListFiles", "DeleteFile"}
    /\ lastOp.op # "ListFiles" => lastOp.id # << >>
    /\ ~lastOp.resp.panicked

\* C33 as stated: the key the local handlers give the store is the bearer
\* token of the Authorization header, else the X-Goog-Api-Key header, else the
\* key parameter, and the empty key when the request has none of them.
C33_KeyFromRequestOnly ==
    AskedStore => lastOp.resp.key = RequestKey(lastOp.c)

\* C33, amended: a string the auth middleware left in the context under
\* "apiKey" is the key of the caller; only without one is the key the bearer
\* token, else the X-Goog-Api-Key header, else the key parameter, else empty.
\* A file the finalize saved is owned by that key.
C33_KeyPrecedence ==
    AskedStore =>
        LET c   == lastOp.c
            key == IF c.ctxKey.exists /\ c.ctxKey.isString THEN StringOf(c.ctxKey.value)
                   ELSE RequestKey(c)
        IN  /\ lastOp.resp.key = key
            /\ (lastOp.op = "handleResumableFinalize" /\ lastOp.resp.status = 200)
                  => metadataDir[FinalizeFileID].md.APIKey = hashAPIKey(key)

\* A finalize whose request has an empty context, a header of another scheme,
\* no X-Goog-Api-Key and a key parameter saved its file under the parameter.
C33_Witness ==
    /\ lastOp.op = "handleResumableFinalize"
    /\ lastOp.resp.status = 200
    /\ ~lastOp.c.ctxKey.exists
    /\ lastOp.c.authorization # << >>
    /\ ~HasPrefix(lastOp.c.authorization, BearerPrefix)
    /\ lastOp.c.googKey = << >>
    /\ lastOp.c.queryKey = CharsKeyB
    /\ metadataDir[FinalizeFileID].md.APIKey = hashAPIKey("key-b")

\* C38: a local finalize with a non-empty upload_id, of any length, ends with
\* a saved file and upload status "final" or with a JSON error envelope; the
\* handler is never aborted by a panic.
C38_FinalizeNeverPanics ==
    FinalizeReturned =>
        /\ ~lastOp.resp.panicked
        /\ \/ /\ lastOp.resp.status = 200
              /\ lastOp.resp.uploadStatus = "final"
              /\ FinalizeFileID \in DOMAIN filesDir
           \/ /\ lastOp.resp.status >= 400
              /\ "error" \in DOMAIN lastOp.resp.body

\* ------------------------------------------------- cleanup routine claims
\* The goroutine calls cleanupExpiredFiles in this step.
SweepStarts == routine.pc = "tick" /\ routine'.pc = "select"

\* C34: once Close has returned no run of the sweep starts, also when a tick
\* was pending at the time Close was called.
C34_NoSweepAfterClose ==
    [][routine.close = "returned" => ~SweepStarts]_vars

\* ------------------------------------------- upstream proxy: session claims
\* C35: a session token authorizes at most one successful finalize: of the
\* finalize follow-ups that carry the same live token at the same time at most
\* one is executed against the upstream, so once a finalize of a token has
\* succeeded no other finalize of that token reaches the executor.
C35_OneFinalizePerToken ==
    [][\A req \in inflight :
          (/\ inflight' = RemoveFollowUp(inflight, req)
           /\ isFinalize(req.cmd)
           /\ req.uploadID \in finalized)
          => lastCall' = lastCall]_vars


\* A resumable start answers in this step with a continuation URL that points
\* at the proxy.
StartRewrites ==
    /\ issued' = issued + 1
    /\ lastResp'.kind = "start"
    /\ lastResp'.status = 200
    /\ lastResp'.uploadURL # NoURL
    /\ lastResp'.uploadURL # UpstreamUploadURL(extractUploadID(lastResp'.uploadURL))

\* C36: when the response of a resumable start carries a continuation URL
\* rewritten to the proxy, the session table holds a binding for the upload_id
\* of that URL as the response is written, also when the metadata of the
\* executor's response names no selected credential.
C36_RewrittenURLIsBound ==
    [][StartRewrites => extractUploadID(lastResp'.uploadURL) \in DOMAIN sessions']_vars


\* The follow-up req reaches the executor in this step and is answered.
Executes(req) ==
    /\ req \in inflight
    /\ inflight' = RemoveFollowUp(inflight, req)
    /\ lastResp'.kind = "followUp"
    /\ lastResp'.uploadID = req.uploadID

\* C37: a follow-up that is no finalize (a chunk or a query), and a finalize
\* whose upstream call fails, leave the session table as it was: the binding of
\* the token keeps its credential and its expiry, and a retry with the token is
\* pinned to the same credential.
C37_FollowUpKeepsSession ==
    [][\A req \in inflight :
          (Executes(req) /\ (req.cmd \in {"upload", "query"} \/ lastResp'.status # 200))
          => /\ sessions' = sessions
             /\ finalized' = finalized
             /\ (req.uploadID \in DOMAIN sessions /\ now <= sessions[req.uploadID].expiresAt)
                   => /\ sessionAuthID(sessions', req.uploadID, now).ok
                      /\ sessionAuthID(sessions', req.uploadID, now).authID = req.authID]_vars

\* A chunk or a query was executed upstream with success under the credential
\* its token was bound to, and the binding is still in the table.
C37_Witness ==
    /\ lastResp.kind = "followUp"
    /\ lastResp.status = 200
    /\ lastCall.kind = "followUp"
    /\ lastCall.uploadID = lastResp.uploadID
    /\ lastCall.uploadID \in DOMAIN sessions
    /\ lastCall.uploadID \notin finalized
    /\ lastCall.ForceAuthID = sessions[lastCall.uploadID].authID
    /\ inflight = {}


\* ------------------------------------------------- FileStore: sidecar claims
\* C39: between the calls of the store every sidecar in the metadata directory
\* has a content file under the same id, of the size the sidecar records; so it
\* is after every sequence of saves, deletes and sweeps, a delete that fails
\* after it removed the content file included.
C39_SidecarHasContent ==
    \A id \in DOMAIN metadataDir :
        /\ id \in DOMAIN filesDir
        /\ metadataDir[id].parsable => SizeOf(filesDir[id]) = metadataDir[id].md.SizeBytes

\* ------------------------------------------------- owner delete claims
\* A DeleteFileForAPIKey of h for the id has passed its ownership check and
\* has not returned.
OwnerDeleting(h, id) ==
    /\ calls[h].key # ""
    /\ calls[h].id = id
    /\ calls[h].pc \notin {"RLock", "GetFileForAPIKey", "RUnlockOwner"}

\* The files whose size is on the counter.
Counted == {s.id : s \in saved}

\* The directory entries this step removes.
Removed == (DOMAIN filesDir \ DOMAIN filesDir') \cup (DOMAIN metadataDir \ DOMAIN metadataDir')

\* C40: while a DeleteFileForAPIKey of the owner runs together with another
\* delete of the same id, or with a sweep that removes it, the size of the file
\* is taken off the byte counter exactly once in total: a step that lowers the
\* counter lowers it by the size of a file that was still counted, and a file
\* whose content is removed is counted no more; and the owner's call removes
\* no record but the one of its id.
C40_OwnerDeleteRace ==
    [][\A g \in Goroutines :
          /\ (/\ calls[g].pc = "Stat"
              /\ calls'[g].pc = "RemoveFile"
              /\ \E h \in Handlers : OwnerDeleting(h, calls[g].id))
             => /\ currentTotalSize' < currentTotalSize => calls[g].id \in Counted
                /\ currentTotalSize' = currentTotalSize => calls[g].id \notin Counted
          /\ (calls[g].key # "" /\ mu.writer = g) => Removed \subseteq {calls[g].id}]_vars

\* The same for runs without I/O failures.
C40_NoFaults ==
    [][\A g \in Goroutines :
          (/\ faults = 0
           /\ calls[g].pc = "Stat"
           /\ calls'[g].pc = "RemoveFile"
           /\ \E h \in Handlers : OwnerDeleting(h, calls[g].id))
          => /\ currentTotalSize' < currentTotalSize => calls[g].id \in Counted
             /\ currentTotalSize' = currentTotalSize => calls[g].id \notin Counted]_vars

\* The owner's check passed, another call removed the file, and the owner's
\* DeleteFile found no content file.
C40_Race ==
    \E g \in Handlers :
        /\ calls[g].key # ""
        /\ calls[g].pc = "RemoveFile"
        /\ calls[g].id \notin DOMAIN filesDir
        /\ faults = 0

====
